---------------------------- MODULE Spec2Model ----------------------------
(***************************************************************************)
(* Model of the payload-repair scripts of the repository:                  *)
(*   fix_markdown_issues.py  (locator, sanitizer, patcher, main)           *)
(*   fix_last_message.py     (locator, in-place patcher, fix_request_body) *)
(*   analyze_last_message.py (analyze_content hazard flags)                *)
(*   fix_request_body.py     (fix_tool_calls)                              *)
(*   test_fixed_request.py   (validate_tool_calls)                         *)
(*   incremental_test.py     (single rules and the test cases of main)     *)
(*   test_comprehensive_markdown_cleanup.py (simulate_cleanup)             *)
(*                                                                         *)
(* A Python str is a sequence of one-character strings.  A JSON value is   *)
(* a tagged record (see the section "JSON values").                        *)
(***************************************************************************)
EXTENDS Integers, Sequences, FiniteSets, TLC

VARIABLES
    pc,               \* position of the running script
    content,          \* text handed to fix_markdown_content
    fixed_content,    \* its result
    refixed_content,  \* result of handing fixed_content to it again
    analysis,         \* the potential_issues flags analyze_content reported
    script,           \* which script runs on the document
    request_body,     \* the document (request_body of main / fix_request_body)
    original_body,    \* the document as it was read
    messages,         \* what find_messages_in_json returned
    fixed_messages,   \* items of the list fix_last_tool_message returned
    fixed_body,       \* what fix_request_body.fix_request_body returned
    tool_calls,       \* the list handed to fix_tool_calls, as it was at the call
    tool_calls_after, \* the caller's list, with the objects in it, as they are now
    fixed_tool_calls, \* the list it returned
    validation,       \* what validate_tool_calls said of fixed_tool_calls
    cleaned_content,  \* the text simulate_cleanup is working on
    step_input,       \* cleaned_content as it was before the last step
    cleaned_message,  \* the message handed to clean_tool_message, which edits it in place
    max_length,       \* the ceiling handed to truncate_tool_message
    truncated         \* what truncate_tool_message returned

sanVars == <<content, fixed_content, refixed_content, analysis>>
docVars == <<script, request_body, original_body, messages, fixed_messages, fixed_body>>
toolVars == <<tool_calls, tool_calls_after, fixed_tool_calls, validation>>
cleanVars == <<cleaned_content, step_input>>
truncVars == <<cleaned_message, max_length, truncated>>
vars == <<pc, sanVars, docVars, toolVars, cleanVars, truncVars>>

\* the variables of the runs a specification does not make
NoText ==
    /\ content = <<>>
    /\ fixed_content = <<>>
    /\ refixed_content = <<>>
    /\ analysis = {}
NoDocument ==
    /\ script = ""
    /\ request_body = <<>>
    /\ original_body = <<>>
    /\ messages = <<>>
    /\ fixed_messages = <<>>
    /\ fixed_body = <<>>
NoToolCalls ==
    /\ tool_calls = <<>>
    /\ tool_calls_after = <<>>
    /\ fixed_tool_calls = <<>>
    /\ validation = <<>>
NoCleanup ==
    /\ cleaned_content = <<>>
    /\ step_input = <<>>
NoTruncation ==
    /\ cleaned_message = <<>>
    /\ max_length = 0
    /\ truncated = <<>>

(***************************************************************************)
(* Text helpers (Python str operations).                                   *)
(***************************************************************************)

\* s[i:i+len(pat)] == pat
StartsAt(s, i, pat) ==
    /\ i >= 1
    /\ i + Len(pat) - 1 <= Len(s)
    /\ \A k \in 1..Len(pat) : s[i + k - 1] = pat[k]

\* pat in s
Contains(s, pat) == \E i \in 1..Len(s) : StartsAt(s, i, pat)

\* s.startswith(pat)
StartsWith(s, pat) == StartsAt(s, 1, pat)

\* least element of a non-empty set of numbers
Least(S) == CHOOSE j \in S : \A k \in S : j <= k

\* least j >= i with s[j] = c, 0 when there is none
IndexFrom(s, c, i) ==
    LET at == {j \in i..Len(s) : s[j] = c}
    IN  IF at = {} THEN 0 ELSE Least(at)

\* index of the last element of the run of characters of set cs that starts
\* at i (i - 1 when s[i] is not in cs)
RunEnd(s, cs, i) ==
    LET stops == {j \in i..Len(s) : s[j] \notin cs}
    IN  IF i > Len(s) THEN i - 1
        ELSE IF stops = {} THEN Len(s)
        ELSE Least(stops) - 1

\* str.replace(pat, rep): leftmost, non-overlapping occurrences
RECURSIVE ReplaceFrom(_, _, _, _)
ReplaceFrom(s, pat, rep, i) ==
    IF i > Len(s) THEN <<>>
    ELSE IF StartsAt(s, i, pat) THEN rep \o ReplaceFrom(s, pat, rep, i + Len(pat))
    ELSE <<s[i]>> \o ReplaceFrom(s, pat, rep, i + 1)

Replace(s, pat, rep) == ReplaceFrom(s, pat, rep, 1)

(***************************************************************************)
(* Regular expressions of fix_markdown_content, incremental_test and       *)
(* simulate_cleanup.  Every character class of                             *)
(* these patterns excludes the character that follows it, so a match at a  *)
(* position is unique: MatchEnd is the index of its last character (0: no  *)
(* match at i) and Group the text re.sub puts in its place.                *)
(***************************************************************************)

\* the backtick character (the parser accepts no backtick inside a string)
Backtick == "<backtick>"

Whitespace == {" ", "\t", "\n", "\r"}      \* \s over the modelled characters

\* open, one or more characters other than close, close, starting at i: the index of close, 0 when it does not match
Bracketed(s, i, open, close) ==
    IF i >= 1 /\ i <= Len(s) /\ s[i] = open
    THEN LET j == IndexFrom(s, close, i + 1)
         IN  IF j > i + 1 THEN j ELSE 0
    ELSE 0

\* md_link_pattern (bracketed label, then parenthesised target) at i: index of the closing parenthesis
LinkEnd(s, i) ==
    LET b == Bracketed(s, i, "[", "]")
    IN  IF b = 0 THEN 0 ELSE Bracketed(s, b + 1, "(", ")")

\* nested_image_pattern: an image inside the label of a link
NestedImageEnd(s, i) ==
    IF StartsAt(s, i, <<"[", "!">>)
    THEN LET p == LinkEnd(s, i + 2)
         IN  IF p > 0 /\ p < Len(s) /\ s[p + 1] = "]"
             THEN Bracketed(s, p + 2, "(", ")")
             ELSE 0
    ELSE 0

\* (faulty variant) groups 1 and 2: the badge URL kept as the target
NestedImageReplBadge(s, i) ==
    LET b == Bracketed(s, i + 2, "[", "]")
        p == Bracketed(s, b + 1, "(", ")")
    IN  <<"[">> \o SubSeq(s, i + 3, b - 1) \o <<"]", "(">>
          \o SubSeq(s, b + 2, p - 1) \o <<")">>

\* replacement of a nested image matched at i: groups 1 and 3 as a link
NestedImageRepl(s, i) ==
    LET b == Bracketed(s, i + 2, "[", "]")
        p == Bracketed(s, b + 1, "(", ")")
        e == Bracketed(s, p + 2, "(", ")")
    IN  <<"[">> \o SubSeq(s, i + 3, b - 1) \o <<"]", "(">>
          \o SubSeq(s, p + 3, e - 1) \o <<")">>

\* badge_pattern: an exclamation mark followed by a link
BadgeEnd(s, i) ==
    IF i >= 1 /\ i <= Len(s) /\ s[i] = "!" THEN LinkEnd(s, i + 1) ELSE 0

\* two stars, one or more characters other than a star, two stars
BoldEnd(s, i) ==
    IF StartsAt(s, i, <<"*", "*">>)
    THEN LET j == IndexFrom(s, "*", i + 2)
         IN  IF j > i + 2 /\ StartsAt(s, j, <<"*", "*">>) THEN j + 1 ELSE 0
    ELSE 0

\* backtick, one or more characters other than a backtick, backtick
CodeEnd(s, i) == Bracketed(s, i, Backtick, Backtick)

\* (faulty variant) the heading pattern without its line-start anchor
HeadingEndUnanchored(s, i) ==
    IF i >= 1 /\ i <= Len(s) /\ s[i] = "#"
    THEN RunEnd(s, Whitespace, RunEnd(s, {"#"}, i) + 1)
    ELSE 0

\* at the start of a line (re.MULTILINE): a run of hashes, then any whitespace
HeadingEnd(s, i) ==
    IF /\ i >= 1 /\ i <= Len(s) /\ s[i] = "#"
       /\ (i = 1 \/ s[i - 1] = "\n")
    THEN RunEnd(s, Whitespace, RunEnd(s, {"#"}, i) + 1)
    ELSE 0

\* open, zero or more characters other than close, close, starting at i: the index of close, 0 when it does not match
BracketedAny(s, i, open, close) ==
    IF i >= 1 /\ i <= Len(s) /\ s[i] = open THEN IndexFrom(s, close, i + 1) ELSE 0

\* simulate_cleanup's nested_image_pattern: the alt text may be empty
CleanupNestedImageEnd(s, i) ==
    IF StartsAt(s, i, <<"[", "!">>)
    THEN LET b == BracketedAny(s, i + 2, "[", "]")
             p == IF b = 0 THEN 0 ELSE Bracketed(s, b + 1, "(", ")")
         IN  IF p > 0 /\ p < Len(s) /\ s[p + 1] = "]"
             THEN Bracketed(s, p + 2, "(", ")")
             ELSE 0
    ELSE 0

\* its replacement: groups 1 and 3 as a link
CleanupNestedImageRepl(s, i) ==
    LET b == BracketedAny(s, i + 2, "[", "]")
        p == Bracketed(s, b + 1, "(", ")")
        e == Bracketed(s, p + 2, "(", ")")
    IN  <<"[">> \o SubSeq(s, i + 3, b - 1) \o <<"]", "(">>
          \o SubSeq(s, p + 3, e - 1) \o <<")">>

\* incomplete_link_pattern: a bracketed label, an opening parenthesis and
\* characters other than ")" up to $, which without re.MULTILINE is the end
\* of the text (or the place before a newline that ends the text, which the
\* greedy class passes): it matches when no ")" follows, up to the last
\* character of the text
IncompleteLinkEnd(s, i) ==
    LET b == Bracketed(s, i, "[", "]")
    IN  IF /\ b > 0 /\ b < Len(s) /\ s[b + 1] = "("
           /\ IndexFrom(s, ")", b + 2) = 0
        THEN Len(s) ELSE 0

HTTPS == <<"h", "t", "t", "p", "s", ":", "/", "/">>
SCHEMES ==
    { <<"h", "t", "t", "p", ":", "/", "/">>, HTTPS,
      <<"m", "a", "i", "l", "t", "o", ":">>, <<"t", "e", "l", ":">>, <<"#">> }
RELATIVE == { <<"/">>, <<".", "/">>, <<".", ".", "/">> }

\* (faulty variant) a relative target is completed like a host
fix_url_relative(s, i) ==
    LET b    == Bracketed(s, i, "[", "]")
        e    == LinkEnd(s, i)
        text == SubSeq(s, i + 1, b - 1)
        url  == SubSeq(s, b + 2, e - 1)
    IN  IF /\ url # <<>>
           /\ \A scheme \in SCHEMES : ~StartsWith(url, scheme)
           /\ Contains(url, <<".">>)
           /\ ~Contains(url, <<" ">>)
           /\ ~Contains(url, <<"\\">>)
        THEN <<"[">> \o text \o <<"]", "(">> \o HTTPS \o url \o <<")">>
        ELSE SubSeq(s, i, e)

\* fix_url(match) for the link matched at i
fix_url(s, i) ==
    LET b    == Bracketed(s, i, "[", "]")
        e    == LinkEnd(s, i)
        text == SubSeq(s, i + 1, b - 1)
        url  == SubSeq(s, b + 2, e - 1)
    IN  IF /\ url # <<>>
           /\ \A scheme \in SCHEMES : ~StartsWith(url, scheme)
           /\ \A prefix \in RELATIVE : ~StartsWith(url, prefix)
           /\ Contains(url, <<".">>)
           /\ ~Contains(url, <<" ">>)
           /\ ~Contains(url, <<"\\">>)
        THEN <<"[">> \o text \o <<"]", "(">> \o HTTPS \o url \o <<")">>
        ELSE SubSeq(s, i, e)

\* empty_alt_pattern: an image with nothing between the brackets
EmptyAltEnd(s, i) ==
    IF StartsAt(s, i, <<"!", "[", "]">>) THEN Bracketed(s, i + 3, "(", ")") ELSE 0

IMAGE_ALT == <<"<U+56FE>", "<U+7247>">>

\* \s+ : a run of whitespace
SpacesEnd(s, i) ==
    IF i >= 1 /\ i <= Len(s) /\ s[i] \in Whitespace THEN RunEnd(s, Whitespace, i) ELSE 0

\* \n\s*\n\s*\n : a newline and, inside the run of whitespace it starts, at
\* least two more; both \s* are greedy, so the match ends at the last
\* newline of the run
BlankLinesEnd(s, i) ==
    IF i >= 1 /\ i <= Len(s) /\ s[i] = "\n"
    THEN LET newlines == {j \in (i + 1)..RunEnd(s, Whitespace, i) : s[j] = "\n"}
         IN  IF Cardinality(newlines) >= 2
             THEN CHOOSE j \in newlines : \A k \in newlines : k <= j
             ELSE 0
    ELSE 0

MatchEnd(rule, s, i) ==
    CASE rule = "nested_image" -> NestedImageEnd(s, i)
      [] rule = "badge"        -> BadgeEnd(s, i)
      [] rule = "md_link"      -> LinkEnd(s, i)
      [] rule = "bold"         -> BoldEnd(s, i)
      [] rule = "code"         -> CodeEnd(s, i)
      [] rule = "heading"      -> HeadingEnd(s, i)
      [] rule = "cleanup_nested_image" -> CleanupNestedImageEnd(s, i)
      [] rule = "incomplete_link"      -> IncompleteLinkEnd(s, i)
      [] rule = "url"                  -> LinkEnd(s, i)
      [] rule = "empty_alt"            -> EmptyAltEnd(s, i)
      [] rule = "spaces"               -> SpacesEnd(s, i)
      [] rule = "blank_lines"          -> BlankLinesEnd(s, i)

Group(rule, s, i) ==
    CASE rule = "nested_image" -> NestedImageRepl(s, i)
      [] rule = "badge"        -> SubSeq(s, i + 2, Bracketed(s, i + 1, "[", "]") - 1)
      [] rule = "md_link"      -> SubSeq(s, i + 1, Bracketed(s, i, "[", "]") - 1)
      [] rule = "bold"         -> SubSeq(s, i + 2, BoldEnd(s, i) - 2)
      [] rule = "code"         -> SubSeq(s, i + 1, CodeEnd(s, i) - 1)
      [] rule = "heading"      -> <<>>
      [] rule = "cleanup_nested_image" -> CleanupNestedImageRepl(s, i)
      [] rule = "incomplete_link"      -> SubSeq(s, i, Len(s)) \o <<")">>
      [] rule = "url"                  -> fix_url(s, i)
      [] rule = "empty_alt"            -> <<"!", "[">> \o IMAGE_ALT \o <<"]">>
                                            \o SubSeq(s, i + 3, EmptyAltEnd(s, i))
      [] rule = "spaces"               -> <<" ">>
      [] rule = "blank_lines"          -> <<"\n", "\n">>

\* re.sub(rule, replacement, s): leftmost non-overlapping matches, scanning
\* resumes after each match
RECURSIVE ReSubFrom(_, _, _)
ReSubFrom(rule, s, i) ==
    IF i > Len(s) THEN <<>>
    ELSE LET e == MatchEnd(rule, s, i)
         IN  IF e > 0
             THEN Group(rule, s, i) \o ReSubFrom(rule, s, e + 1)
             ELSE <<s[i]>> \o ReSubFrom(rule, s, i + 1)

ReSub(rule, s) == ReSubFrom(rule, s, 1)

(***************************************************************************)
(* fix_markdown_issues.fix_markdown_content                                *)
(***************************************************************************)

NAME_TAB   == <<"n", "a", "m", "e", ":", "\t">>
NAME_SPACE == <<"n", "a", "m", "e", ":", " ">>
PCT_2B     == <<"%", "2", "B">>
BACKSLASH2 == <<"\\", "\\">>

fix_markdown_content(c) ==
    IF c = <<>> THEN c
    ELSE LET s1 == ReSub("nested_image", c)
             s2 == Replace(s1, PCT_2B, <<"+">>)
             s3 == Replace(s2, BACKSLASH2, <<"/">>)
             s4 == Replace(s3, NAME_TAB, NAME_SPACE)
             s5 == ReSub("badge", s4)
             s6 == ReSub("md_link", s5)
             s7 == ReSub("bold", s6)
             s8 == ReSub("code", s7)
         IN  ReSub("heading", s8)

(***************************************************************************)
(* analyze_last_message.analyze_content: the checks of sections 4 and 7    *)
(* that append to potential_issues, as the set of the issues appended.     *)
(***************************************************************************)

PYTHON      == <<"P", "y", "t", "h", "o", "n">>
IMG_PYTHON  == <<"!", "[">> \o PYTHON \o <<"]">>

analyze_content(c) ==
    { issue \in {"tab_header", "markdown_image", "double_backslash", "url_encoded"} :
        CASE issue = "tab_header"       -> StartsWith(c, NAME_TAB)
          [] issue = "markdown_image"   -> Contains(c, IMG_PYTHON)
          [] issue = "double_backslash" -> Contains(c, BACKSLASH2)
          [] issue = "url_encoded"      -> Contains(c, PCT_2B) }

(***************************************************************************)
(* JSON values.  A str is Str(characters), a dict is Obj(kv) with kv the   *)
(* sequence of its <<key, value>> entries in insertion order (keys are     *)
(* character sequences), a list is List(items).  A reference to a node of  *)
(* a document is the path of the node from the root: a sequence of         *)
(* Key(k) and Idx(i) steps.                                                *)
(***************************************************************************)

Str(cs)     == [t |-> "str", v |-> cs]
Num(n)      == [t |-> "num", n |-> n]
Bool(b)     == [t |-> "bool", b |-> b]
Null        == [t |-> "null"]
Obj(kv)     == [t |-> "obj", kv |-> kv]
List(items) == [t |-> "list", items |-> items]

Key(k) == [key |-> k]
Idx(i) == [idx |-> i]

\* position of key k among the entries of dict o, 0 when absent
KeyIndex(o, k) ==
    IF \E n \in 1..Len(o.kv) : o.kv[n][1] = k
    THEN CHOOSE n \in 1..Len(o.kv) : o.kv[n][1] = k
    ELSE 0

\* k in o
Has(o, k) == KeyIndex(o, k) > 0

\* o[k]
Get(o, k) == o.kv[KeyIndex(o, k)][2]

\* o.get(k, default)
GetOr(o, k, default) == IF Has(o, k) THEN Get(o, k) ELSE default

\* o[k] = x: an existing key keeps its position, a new key goes last
Put(o, k, x) ==
    IF Has(o, k)
    THEN Obj([o.kv EXCEPT ![KeyIndex(o, k)] = <<k, x>>])
    ELSE Obj(Append(o.kv, <<k, x>>))

\* del o[k]
Del(o, k) == Obj(SelectSeq(o.kv, LAMBDA e : e[1] # k))

\* the node at path p under v
RECURSIVE GetAt(_, _)
GetAt(v, p) ==
    IF p = <<>> THEN v
    ELSE IF "key" \in DOMAIN Head(p)
         THEN GetAt(Get(v, Head(p).key), Tail(p))
         ELSE GetAt(v.items[Head(p).idx], Tail(p))

\* v with the node at path p replaced by x
RECURSIVE SetAt(_, _, _)
SetAt(v, p, x) ==
    IF p = <<>> THEN x
    ELSE IF "key" \in DOMAIN Head(p)
         THEN Put(v, Head(p).key, SetAt(Get(v, Head(p).key), Tail(p), x))
         ELSE List([v.items EXCEPT ![Head(p).idx] = SetAt(@, Tail(p), x)])

MESSAGES     == <<"m", "e", "s", "s", "a", "g", "e", "s">>
REQUEST_BODY == <<"r", "e", "q", "u", "e", "s", "t", "B", "o", "d", "y">>
ROLE         == <<"r", "o", "l", "e">>
CONTENT      == <<"c", "o", "n", "t", "e", "n", "t">>
TOOL         == <<"t", "o", "o", "l">>

(***************************************************************************)
(* find_messages_in_json (the same code in fix_markdown_issues.py and      *)
(* fix_last_message.py).  The result is the list it returns: a reference   *)
(* into the document (ref, relative to data) with the items found there,   *)
(* or the fresh empty list of the last line.                               *)
(***************************************************************************)

NotFound        == [fresh |-> TRUE, ref |-> <<>>, items |-> <<>>]
Found(p, items) == [fresh |-> FALSE, ref |-> p, items |-> items]

\* a result found under step st of the enclosing node
Under(st, r) == IF r.fresh THEN r ELSE [r EXCEPT !.ref = <<st>> \o @]

\* "if result:" (a list is true when it is not empty)
Truthy(r) == r.items # <<>>

\* (faulty variant) any list-valued entry of the root is taken for the
\* messages
find_messages_in_json_any_list(data) ==
    IF data.t = "obj" /\ \E n \in 1..Len(data.kv) : data.kv[n][2].t = "list"
    THEN LET n == CHOOSE n \in 1..Len(data.kv) : data.kv[n][2].t = "list"
         IN  Found(<<Key(data.kv[n][1])>>, data.kv[n][2].items)
    ELSE NotFound

RECURSIVE find_messages_in_json(_), FindInValues(_, _), FindInItems(_, _)
find_messages_in_json(data) ==
    IF data.t = "obj"
    THEN IF Has(data, MESSAGES) /\ Get(data, MESSAGES).t = "list"
         THEN Found(<<Key(MESSAGES)>>, Get(data, MESSAGES).items)
         ELSE FindInValues(data, 1)
    ELSE NotFound

\* the loop over data.items(), from entry n on
FindInValues(data, n) ==
    IF n > Len(data.kv) THEN NotFound
    ELSE LET key    == data.kv[n][1]
             value  == data.kv[n][2]
             result == IF value.t = "obj"
                       THEN Under(Key(key), find_messages_in_json(value))
                       ELSE IF value.t = "list"
                       THEN Under(Key(key), FindInItems(value, 1))
                       ELSE NotFound
         IN  IF Truthy(result) THEN result ELSE FindInValues(data, n + 1)

\* the loop over the items of a list value, from item n on
FindInItems(value, n) ==
    IF n > Len(value.items) THEN NotFound
    ELSE LET item   == value.items[n]
             result == IF item.t = "obj"
                       THEN Under(Idx(n), find_messages_in_json(item))
                       ELSE NotFound
         IN  IF Truthy(result) THEN result ELSE FindInItems(value, n + 1)

(***************************************************************************)
(* fix_last_tool_message.  A call returns Returned(items) or Raised (an    *)
(* exception left the function).                                           *)
(***************************************************************************)

Raised          == [outcome |-> "raised", items |-> <<>>]
Returned(items) == [outcome |-> "returned", items |-> items]

\* (faulty variant) a forward scan that stops at the first tool message
FirstToolIndex(msgs) ==
    LET tools == {i \in 1..Len(msgs) : GetOr(msgs[i], ROLE, Null) = Str(TOOL)}
    IN  IF tools = {} THEN 0 ELSE CHOOSE i \in tools : \A j \in tools : i <= j

\* the reverse scan for role == "tool": the index found, 0 when none
\* (Python's -1)
LastToolIndex(msgs) ==
    LET tools == {i \in 1..Len(msgs) : GetOr(msgs[i], ROLE, Null) = Str(TOOL)}
    IN  IF tools = {} THEN 0 ELSE CHOOSE i \in tools : \A j \in tools : j <= i

\* (faulty variant) the fixed message rebuilt from its role and content alone
MD_fix_last_tool_message_rebuilt(msgs) ==
    IF msgs = <<>> THEN Returned(msgs)
    ELSE LET last_tool_index == LastToolIndex(msgs)
         IN  IF last_tool_index = 0 THEN Returned(msgs)
             ELSE LET last_message     == msgs[last_tool_index]
                      original_content == GetOr(last_message, CONTENT, Str(<<>>))
                  IN  IF original_content.t # "str" THEN Raised
                      ELSE Returned([msgs EXCEPT ![last_tool_index] =
                               Obj(<< <<ROLE, Str(TOOL)>>,
                                      <<CONTENT, Str(fix_markdown_content(original_content.v))>> >>)])

\* fix_markdown_issues.fix_last_tool_message: a new list with a copy of the
\* last tool message whose content is the sanitized text
MD_fix_last_tool_message(msgs) ==
    IF msgs = <<>> THEN Returned(msgs)
    ELSE LET last_tool_index == LastToolIndex(msgs)
         IN  IF last_tool_index = 0 THEN Returned(msgs)
             ELSE LET last_message     == msgs[last_tool_index]
                      original_content == GetOr(last_message, CONTENT, Str(<<>>))
                  IN  IF original_content.t # "str" THEN Raised
                      ELSE Returned([msgs EXCEPT ![last_tool_index] =
                               Put(last_message, CONTENT,
                                   Str(fix_markdown_content(original_content.v)))])

LUOGU_HEADER == <<"n", "a", "m", "e", ":", "\t", "k", "e", "n", "y", "f", "l", "y", "/", "l", "u", "o", "g", "u">>
\* the fixed marker line; a character outside ASCII is written as its code point
SIMPLIFIED   == <<"[", "<U+4ED3>", "<U+5E93>", "<U+4FE1>", "<U+606F>", "<U+5DF2>", "<U+7B80>", "<U+5316>", "]">>

\* content.split('\n')[k - 1] for k = 1, 2, from position i on
RECURSIVE LineFrom(_, _, _)
LineFrom(s, k, i) ==
    LET nl  == IndexFrom(s, "\n", i)
        end == IF nl = 0 THEN Len(s) ELSE nl - 1
    IN  IF k = 1 THEN SubSeq(s, i, end) ELSE LineFrom(s, k - 1, nl + 1)

\* len(content.split('\n'))
LineCount(s) == 1 + Cardinality({i \in 1..Len(s) : s[i] = "\n"})

\* fix_last_message.fix_last_tool_message: the same list, the content of
\* the last tool message overwritten in place when it is the repository
\* listing
LM_fix_last_tool_message(msgs) ==
    IF msgs = <<>> THEN Returned(msgs)
    ELSE LET last_tool_index == LastToolIndex(msgs)
         IN  IF last_tool_index = 0 THEN Returned(msgs)
             ELSE LET last_message == msgs[last_tool_index]
                      c            == GetOr(last_message, CONTENT, Str(<<>>))
                  IN  IF c.t # "str" THEN Raised
                      ELSE IF StartsWith(c.v, LUOGU_HEADER) /\ LineCount(c.v) >= 2
                      THEN Returned([msgs EXCEPT ![last_tool_index] =
                               Put(last_message, CONTENT,
                                   Str(LineFrom(c.v, 1, 1) \o <<"\n">>
                                       \o LineFrom(c.v, 2, 1) \o <<"\n">>
                                       \o SIMPLIFIED))])
                      ELSE Returned(msgs)

(***************************************************************************)
(* Inputs: every text made of at most MaxFrags fragments, and every text   *)
(* made of at most MaxHazardFrags of the fragments the analyzer's checks   *)
(* and the rules that delete delimiters are about.                         *)
(***************************************************************************)

MaxFrags == 3
MaxHazardFrags == 4

Fragments ==
    { <<"[">>, <<"]">>, <<"(">>, <<")">>, <<"!">>, <<"\\">>, <<"*">>,
      <<Backtick>>, <<"#">>, <<"\n">>, <<"\t">>, <<"a">>, <<"%", "2">>,
      <<"B">>, <<"n", "a", "m", "e", ":">>, PYTHON }

HazardFragments ==
    { <<"[">>, <<"]">>, <<"!">>, <<"\\">>, <<Backtick>>, <<"\t">>,
      <<"%", "2">>, <<"B">>, <<"n", "a", "m", "e", ":">>, PYTHON }

RECURSIVE TextsOf(_, _)
TextsOf(frags, n) ==
    IF n = 0 THEN {<<>>}
    ELSE LET T == TextsOf(frags, n - 1)
         IN  T \cup {t \o f : t \in T, f \in frags}

\* the input texts for the bounds n and h
Texts(n, h) == TextsOf(Fragments, n) \cup TextsOf(HazardFragments, h)

(***************************************************************************)
(* The sanitizer run on one text, the analyzer run on its output, and the  *)
(* sanitizer run again on its own output.                                  *)
(***************************************************************************)

InitSanitize ==
    /\ pc = "read"
    /\ content \in Texts(MaxFrags, MaxHazardFrags)
    /\ fixed_content = <<>>
    /\ refixed_content = <<>>
    /\ analysis = {}
    /\ NoDocument
    /\ NoToolCalls
    /\ NoCleanup
    /\ NoTruncation

Sanitize ==
    /\ pc = "read"
    /\ fixed_content' = fix_markdown_content(content)
    /\ pc' = "fixed"
    /\ UNCHANGED <<content, refixed_content, analysis, docVars, toolVars, cleanVars, truncVars>>

Analyze ==
    /\ pc = "fixed"
    /\ analysis' = analyze_content(fixed_content)
    /\ pc' = "analyzed"
    /\ UNCHANGED <<content, fixed_content, refixed_content, docVars, toolVars, cleanVars, truncVars>>

SanitizeAgain ==
    /\ pc = "analyzed"
    /\ refixed_content' = fix_markdown_content(fixed_content)
    /\ pc' = "refixed"
    /\ UNCHANGED <<content, fixed_content, analysis, docVars, toolVars, cleanVars, truncVars>>

NextSanitize == Sanitize \/ Analyze \/ SanitizeAgain

SpecSanitize == InitSanitize /\ [][NextSanitize]_vars

(***************************************************************************)
(* The update of the request body after the fix (the same code in          *)
(* fix_markdown_issues.main and fix_last_message.fix_request_body).        *)
(***************************************************************************)

\* k in v, for the values that support the test; others raise TypeError
InSupported(v) == v.t \in {"obj", "str", "list"}
In(k, v) ==
    CASE v.t = "obj"  -> Has(v, k)
      [] v.t = "str"  -> Contains(v.v, k)
      [] v.t = "list" -> \E n \in 1..Len(v.items) : v.items[n] = Str(k)
      [] OTHER        -> FALSE

Saved(body)  == [outcome |-> "saved", body |-> body]
Failed(body) == [outcome |-> "raised", body |-> body]

update_request_body(body, fixed) ==
    IF Has(body, REQUEST_BODY)
    THEN LET inner == Get(body, REQUEST_BODY)
         IN  IF ~InSupported(inner) THEN Failed(body)
             ELSE IF In(MESSAGES, inner)
             THEN IF inner.t = "obj"
                  THEN Saved(Put(body, REQUEST_BODY, Put(inner, MESSAGES, List(fixed))))
                  ELSE Failed(body)
             ELSE IF Has(body, MESSAGES)
             THEN Saved(Put(body, MESSAGES, List(fixed)))
             ELSE Saved(body)
    ELSE IF Has(body, MESSAGES)
    THEN Saved(Put(body, MESSAGES, List(fixed)))
    ELSE Saved(body)

(***************************************************************************)
(* Documents: a list of at most MaxMessages messages inside an envelope.   *)
(***************************************************************************)

MaxMessages == 2

USER         == <<"u", "s", "e", "r">>
NAME         == <<"n", "a", "m", "e">>
TOOL_CALL_ID == <<"t", "o", "o", "l", "_", "c", "a", "l", "l", "_", "i", "d">>
BOLD_A       == <<"*", "*", "a", "*", "*">>
LUOGU_TEXT   == LUOGU_HEADER \o <<"\n", "B", "\n">> \o BOLD_A

MessagePool ==
    { Obj(<< <<ROLE, Str(USER)>>, <<CONTENT, Str(BOLD_A)>> >>),
      Obj(<< <<ROLE, Str(TOOL)>>, <<TOOL_CALL_ID, Str(<<"c", "1">>)>>,
             <<NAME, Str(<<"g", "e", "t">>)>>, <<CONTENT, Str(BOLD_A)>> >>),
      Obj(<< <<ROLE, Str(TOOL)>>, <<CONTENT, Str(<<"a">>)>> >>),
      Obj(<< <<ROLE, Str(TOOL)>>, <<TOOL_CALL_ID, Str(<<"c", "2">>)>> >>),
      Obj(<< <<ROLE, Str(TOOL)>>, <<CONTENT, Null>> >>),
      Obj(<< <<CONTENT, Str(LUOGU_TEXT)>>, <<ROLE, Str(TOOL)>>,
             <<NAME, Str(<<"g", "e", "t">>)>> >>),
      Obj(<< <<ROLE, Str(TOOL)>>, <<CONTENT, Str(LUOGU_HEADER)>> >>),
      Obj(<< <<CONTENT, Str(<<"a">>)>> >>) }

RECURSIVE MessageLists(_)
MessageLists(n) ==
    IF n = 0 THEN {<<>>}
    ELSE LET L == MessageLists(n - 1)
         IN  L \cup {Append(l, m) : l \in L, m \in MessagePool}

K(name) == CASE name = "data"    -> <<"d", "a", "t", "a">>
             [] name = "payload" -> <<"p", "a", "y", "l", "o", "a", "d">>
             [] name = "batch"   -> <<"b", "a", "t", "c", "h">>
             [] name = "meta"    -> <<"m", "e", "t", "a">>
             [] name = "inner"   -> <<"i", "n", "n", "e", "r">>
             [] name = "model"   -> <<"m", "o", "d", "e", "l">>

OtherList == List(<< Obj(<< <<ROLE, Str(USER)>>, <<CONTENT, Str(<<"a">>)>> >>) >>)

Envelopes(l) ==
    LET M == <<MESSAGES, List(l)>>
    IN  { Obj(<<M>>),
          Obj(<< <<K("model"), Str(<<"a">>)>>, <<REQUEST_BODY, Obj(<<M>>)>> >>),
          Obj(<< <<K("data"), Obj(<< <<REQUEST_BODY, Obj(<<M>>)>> >>)>> >>),
          Obj(<< <<K("payload"), Obj(<<M>>)>> >>),
          Obj(<< M, <<REQUEST_BODY, Obj(<< <<MESSAGES, OtherList>> >>)>> >>),
          Obj(<< <<REQUEST_BODY, Obj(<<M>>)>>, <<MESSAGES, Str(<<"a">>)>> >>),
          Obj(<< <<K("batch"), List(<< Str(<<"a">>), Obj(<<M>>) >>)>> >>),
          Obj(<< <<K("model"), Str(<<"a">>)>> >>),
          Obj(<< <<REQUEST_BODY, Str(<<"a">>)>>, M >>),
          Obj(<< <<REQUEST_BODY, Null>>, M >>),
          Obj(<< <<REQUEST_BODY, Obj(<< <<K("meta"), Obj(<<M>>)>>,
                                        <<MESSAGES, Str(<<"a">>)>> >>)>> >>),
          Obj(<< <<REQUEST_BODY, Obj(<< <<MESSAGES, List(<<>>)>>,
                                        <<K("inner"), Obj(<<M>>)>> >>)>> >>),
          Obj(<< <<K("meta"), Obj(<< <<MESSAGES, List(<<>>)>> >>)>>,
                 <<K("payload"), Obj(<<M>>)>> >>),
          Obj(<< <<MESSAGES, List(<<>>)>>, <<K("payload"), Obj(<<M>>)>> >>),
          Obj(<< <<K("data"), List(l)>> >>),
          Obj(<< <<K("data"), Obj(<< <<REQUEST_BODY, Obj(<< <<K("model"), Str(<<"a">>)>> >>)>> >>)>>,
                 <<K("batch"), List(<< Str(<<"a">>), Obj(<< <<K("model"), Str(<<"a">>)>> >>) >>)>> >>) }

\* the input documents for the bound n
Documents(n) == UNION {Envelopes(l) : l \in MessageLists(n)}

(***************************************************************************)
(* A run of fix_markdown_issues.main ("markdown") or of                    *)
(* fix_last_message.fix_request_body ("last_message") on one document:     *)
(* locate the messages, fix the last tool message, update the document.    *)
(***************************************************************************)

InitPatch ==
    /\ pc = "loaded"
    /\ script \in {"markdown", "last_message"}
    /\ request_body \in Documents(MaxMessages)
    /\ original_body = request_body
    /\ messages = <<>>
    /\ fixed_messages = <<>>
    /\ fixed_body = <<>>
    /\ NoText
    /\ NoToolCalls
    /\ NoCleanup
    /\ NoTruncation

\* messages = find_messages_in_json(request_body); "if not messages" ends
\* the run with the document as it is
Locate ==
    /\ pc = "loaded"
    /\ messages' = find_messages_in_json(request_body)
    /\ pc' = IF Truthy(messages') THEN "located" ELSE "not_found"
    /\ UNCHANGED <<script, request_body, original_body, fixed_messages, fixed_body, sanVars, toolVars, cleanVars, truncVars>>

\* fixed_messages = fix_last_tool_message(messages); fix_last_message.py
\* writes into the located list itself
FixLastTool ==
    /\ pc = "located"
    /\ LET r == IF script = "markdown"
                THEN MD_fix_last_tool_message(messages.items)
                ELSE LM_fix_last_tool_message(messages.items)
       IN  IF r.outcome = "raised"
           THEN /\ pc' = "raised"
                /\ UNCHANGED <<request_body, fixed_messages>>
           ELSE /\ pc' = "fixed"
                /\ fixed_messages' = r.items
                /\ request_body' = IF script = "markdown" THEN request_body
                                   ELSE SetAt(request_body, messages.ref, List(r.items))
    /\ UNCHANGED <<script, original_body, messages, fixed_body, sanVars, toolVars, cleanVars, truncVars>>

\* the update of requestBody.messages or messages; a TypeError ends the run
WriteBack ==
    /\ pc = "fixed"
    /\ LET r == update_request_body(request_body, fixed_messages)
       IN  /\ pc' = r.outcome
           /\ request_body' = r.body
    /\ UNCHANGED <<script, original_body, messages, fixed_messages, fixed_body, sanVars, toolVars, cleanVars, truncVars>>

NextPatch == Locate \/ FixLastTool \/ WriteBack

SpecPatch == InitPatch /\ [][NextPatch]_vars

(***************************************************************************)
(* json.loads and json.dumps over character sequences: objects, arrays,    *)
(* strings, integers, true, false, null and whitespace.  The escapes \b,   *)
(* \f and \u, fractions and exponents are not modelled: the inputs hold    *)
(* none of them.                                                           *)
(***************************************************************************)

DIGITS == <<"0", "1", "2", "3", "4", "5", "6", "7", "8", "9">>
IsDigit(c) == \E d \in 1..10 : DIGITS[d] = c
DigitValue(c) == (CHOOSE d \in 1..10 : DIGITS[d] = c) - 1

\* first position at or after i that holds no JSON whitespace
SkipWs(s, i) == RunEnd(s, Whitespace, i) + 1

\* the value of a set of one value; a step written The({ f(x) : x \in {e} })
\* works e out once and uses it as x
The(S) == CHOOSE x \in S : TRUE

Parsed(val, next) == [ok |-> TRUE, val |-> val, next |-> next]
ParseError        == [ok |-> FALSE, val |-> Null, next |-> 0]

\* number of backslashes right before position j of the literal whose
\* first character is at i
BackslashesBefore(s, i, j) ==
    LET others == {k \in i..(j - 1) : s[k] # "\\"}
    IN  IF others = {} THEN j - i
        ELSE j - 1 - (CHOOSE k \in others : \A m \in others : m <= k)

\* the character at j follows a backslash that escapes it
Escaped(s, i, j) == BackslashesBefore(s, i, j) % 2 = 1

\* the character an escape writes
Unescaped(c) ==
    CASE c = "n" -> "\n"
      [] c = "t" -> "\t"
      [] c = "r" -> "\r"
      [] OTHER   -> c

\* a string literal at i (its opening quote): it ends at the first quote
\* that is not escaped; a backslash escapes a quote, a backslash or a slash
\* and writes a newline, a tab or a carriage return; a bare control
\* character is an error
ParseString(s, i) ==
    LET quotes == {j \in (i + 1)..Len(s) : s[j] = "\"" /\ ~Escaped(s, i + 1, j)}
    IN  IF quotes = {} THEN ParseError
        ELSE LET e    == Least(quotes)
                 kept == SelectSeq([j \in 1..(e - 1 - i) |-> i + j],
                                   LAMBDA j : s[j] # "\\" \/ Escaped(s, i + 1, j))
             IN  IF \E j \in (i + 1)..(e - 1) :
                        \/ s[j] \in {"\n", "\t", "\r"}
                        \/ Escaped(s, i + 1, j) /\ s[j] \notin {"\"", "\\", "/", "n", "t", "r"}
                 THEN ParseError
                 ELSE Parsed(Str([q \in 1..Len(kept) |->
                                     IF Escaped(s, i + 1, kept[q])
                                     THEN Unescaped(s[kept[q]])
                                     ELSE s[kept[q]]]),
                             e + 1)

\* value of the digits s[i..j]
RECURSIVE DigitsValue(_, _, _)
DigitsValue(s, i, j) ==
    IF j < i THEN 0 ELSE 10 * DigitsValue(s, i, j - 1) + DigitValue(s[j])

\* an integer at i: optional minus, then 0 or a run of digits not starting with 0
ParseNumber(s, i) ==
    LET d == IF s[i] = "-" THEN i + 1 ELSE i
    IN  IF d > Len(s) \/ ~IsDigit(s[d]) THEN ParseError
        ELSE LET e == IF s[d] = "0" THEN d ELSE RunEnd(s, {DIGITS[k] : k \in 1..10}, d)
                 n == DigitsValue(s, d, e)
             IN  Parsed(Num(IF d > i THEN 0 - n ELSE n), e + 1)

RECURSIVE ParseValue(_, _), ParseMembers(_, _, _), ParseElements(_, _, _)
\* the value that starts at i
ParseValue(s, i) ==
    IF i > Len(s) THEN ParseError
    ELSE CASE s[i] = "\"" -> ParseString(s, i)
           [] s[i] = "{" ->
                LET j == SkipWs(s, i + 1)
                IN  IF j <= Len(s) /\ s[j] = "}" THEN Parsed(Obj(<<>>), j + 1)
                    ELSE ParseMembers(s, j, Obj(<<>>))
           [] s[i] = "[" ->
                LET j == SkipWs(s, i + 1)
                IN  IF j <= Len(s) /\ s[j] = "]" THEN Parsed(List(<<>>), j + 1)
                    ELSE ParseElements(s, j, <<>>)
           [] StartsAt(s, i, <<"n", "u", "l", "l">>) -> Parsed(Null, i + 4)
           [] StartsAt(s, i, <<"t", "r", "u", "e">>) -> Parsed(Bool(TRUE), i + 4)
           [] StartsAt(s, i, <<"f", "a", "l", "s", "e">>) -> Parsed(Bool(FALSE), i + 5)
           [] s[i] = "-" \/ IsDigit(s[i]) -> ParseNumber(s, i)
           [] OTHER -> ParseError

\* the members of an object from the key at i on; acc holds those read so
\* far (a repeated key keeps its first position and takes the last value)
ParseMembers(s, i, acc) ==
    IF i > Len(s) \/ s[i] # "\"" THEN ParseError
    ELSE The({ IF ~k.ok THEN ParseError
               ELSE LET c == SkipWs(s, k.next)
                    IN  IF c > Len(s) \/ s[c] # ":" THEN ParseError
                        ELSE The({ IF ~v.ok THEN ParseError
                                   ELSE The({ IF e > Len(s) THEN ParseError
                                              ELSE IF s[e] = "}"
                                              THEN Parsed(Put(acc, k.val.v, v.val), e + 1)
                                              ELSE IF s[e] = ","
                                              THEN ParseMembers(s, SkipWs(s, e + 1),
                                                                Put(acc, k.val.v, v.val))
                                              ELSE ParseError
                                              : e \in {SkipWs(s, v.next)} })
                                   : v \in {ParseValue(s, SkipWs(s, c + 1))} })
               : k \in {ParseString(s, i)} })

\* the elements of an array from the value at i on
ParseElements(s, i, acc) ==
    The({ IF ~v.ok THEN ParseError
          ELSE The({ IF e > Len(s) THEN ParseError
                     ELSE IF s[e] = "]" THEN Parsed(List(Append(acc, v.val)), e + 1)
                     ELSE IF s[e] = ","
                     THEN ParseElements(s, SkipWs(s, e + 1), Append(acc, v.val))
                     ELSE ParseError
                     : e \in {SkipWs(s, v.next)} })
          : v \in {ParseValue(s, i)} })

\* json.loads(s): ParseError stands for json.JSONDecodeError
Loads(s) ==
    The({ IF v.ok /\ SkipWs(s, v.next) = Len(s) + 1 THEN v ELSE ParseError
          : v \in {ParseValue(s, SkipWs(s, 1))} })

\* decimal digits of n >= 0
RECURSIVE NatChars(_)
NatChars(n) ==
    IF n < 10 THEN <<DIGITS[n + 1]>> ELSE NatChars(n \div 10) \o <<DIGITS[(n % 10) + 1]>>

\* the characters json.dumps escapes, and the letter it writes for each
NeedsEscape(c) == c \in {"\"", "\\", "\n", "\t", "\r"}
EscapeLetter(c) ==
    CASE c = "\n" -> "n"
      [] c = "\t" -> "t"
      [] c = "\r" -> "r"
      [] OTHER    -> c

\* the inside of a string literal: every escaped character takes two
\* places, a backslash and its letter
Quoted(cs) ==
    LET first(p) == p + Cardinality({k \in 1..(p - 1) : NeedsEscape(cs[k])})
        total    == Len(cs) + Cardinality({k \in 1..Len(cs) : NeedsEscape(cs[k])})
    IN  [q \in 1..total |->
            LET p == CHOOSE p \in 1..Len(cs) :
                        first(p) <= q /\ q <= first(p) + (IF NeedsEscape(cs[p]) THEN 1 ELSE 0)
            IN  IF NeedsEscape(cs[p])
                THEN (IF q = first(p) THEN "\\" ELSE EscapeLetter(cs[p]))
                ELSE cs[p]]

\* json.dumps(v, ensure_ascii=False): separators ", " and ": "
RECURSIVE Dumps(_), DumpMembers(_, _), DumpItems(_, _)
Dumps(v) ==
    CASE v.t = "str"  -> <<"\"">> \o Quoted(v.v) \o <<"\"">>
      [] v.t = "num"  -> IF v.n < 0 THEN <<"-">> \o NatChars(0 - v.n) ELSE NatChars(v.n)
      [] v.t = "bool" -> IF v.b THEN <<"t", "r", "u", "e">> ELSE <<"f", "a", "l", "s", "e">>
      [] v.t = "null" -> <<"n", "u", "l", "l">>
      [] v.t = "obj"  -> <<"{">> \o DumpMembers(v.kv, 1) \o <<"}">>
      [] v.t = "list" -> <<"[">> \o DumpItems(v.items, 1) \o <<"]">>

DumpMembers(kv, n) ==
    IF n > Len(kv) THEN <<>>
    ELSE (IF n > 1 THEN <<",", " ">> ELSE <<>>)
         \o <<"\"">> \o Quoted(kv[n][1]) \o <<"\"", ":", " ">> \o Dumps(kv[n][2])
         \o DumpMembers(kv, n + 1)

DumpItems(items, n) ==
    IF n > Len(items) THEN <<>>
    ELSE (IF n > 1 THEN <<",", " ">> ELSE <<>>) \o Dumps(items[n])
         \o DumpItems(items, n + 1)

(***************************************************************************)
(* fix_request_body.fix_tool_calls                                         *)
(***************************************************************************)

ID          == <<"i", "d">>
TYPE        == <<"t", "y", "p", "e">>
FUNCTION    == <<"f", "u", "n", "c", "t", "i", "o", "n">>
ARGUMENTS   == <<"a", "r", "g", "u", "m", "e", "n", "t", "s">>
DESCRIPTION == <<"d", "e", "s", "c", "r", "i", "p", "t", "i", "o", "n">>

UPPER == <<"A", "B", "C", "D", "E", "F", "G", "H", "I", "J", "K", "L", "M", "N", "O", "P", "Q", "R", "S", "T", "U", "V", "W", "X", "Y", "Z">>
LOWER == <<"a", "b", "c", "d", "e", "f", "g", "h", "i", "j", "k", "l", "m", "n", "o", "p", "q", "r", "s", "t", "u", "v", "w", "x", "y", "z">>

\* str.lower() over the ASCII letters
Lower(cs) ==
    [i \in 1..Len(cs) |->
        IF \E k \in 1..26 : UPPER[k] = cs[i]
        THEN LOWER[CHOOSE k \in 1..26 : UPPER[k] = cs[i]]
        ELSE cs[i]]

\* the try/except around json.loads: the parsed arguments, an empty dict
\* when the string does not parse, the value itself when it is no string
ArgsDict(original_args) ==
    IF original_args.t = "str"
    THEN LET r == Loads(original_args.v)
         IN  IF r.ok THEN r.val ELSE Obj(<<>>)
    ELSE original_args

\* (faulty variant) the description key is left in place
WithoutDescriptionKept(args_dict) ==
    IF ~InSupported(args_dict) THEN Raised
    ELSE IF ~In(DESCRIPTION, args_dict) THEN Returned(args_dict)
    ELSE IF args_dict.t = "obj" THEN Returned(args_dict)
    ELSE Raised

\* d without its description key, and its dict values without theirs
RECURSIVE DeepDel(_)
DeepDel(d) ==
    Obj([n \in 1..Len(Del(d, DESCRIPTION).kv) |->
            LET e == Del(d, DESCRIPTION).kv[n]
            IN  IF e[2].t = "obj" THEN <<e[1], DeepDel(e[2])>> ELSE e])

\* (faulty variant) the description key is removed at every depth
WithoutDescriptionDeep(args_dict) ==
    IF ~InSupported(args_dict) THEN Raised
    ELSE IF args_dict.t = "obj" THEN Returned(DeepDel(args_dict))
    ELSE IF ~In(DESCRIPTION, args_dict) THEN Returned(args_dict)
    ELSE Raised

\* if "description" in args_dict: del args_dict["description"]
\* (the test raises TypeError on a number, a boolean and None; the del
\* raises TypeError on a list and on a str)
WithoutDescription(args_dict) ==
    IF ~InSupported(args_dict) THEN Raised
    ELSE IF ~In(DESCRIPTION, args_dict) THEN Returned(args_dict)
    ELSE IF args_dict.t = "obj" THEN Returned(Del(args_dict, DESCRIPTION))
    ELSE Raised

\* one turn of the loop: the fixed tool call, or Raised
fix_tool_call(tool_call) ==
    LET call_id       == GetOr(tool_call, ID, Str(<<>>))
        call_type     == GetOr(tool_call, TYPE, Str(FUNCTION))
        function_data == GetOr(tool_call, FUNCTION, Obj(<<>>))
    IN  IF function_data.t # "obj" THEN Raised
        ELSE LET name == GetOr(function_data, NAME, Str(<<>>))
                 args == WithoutDescription(
                             ArgsDict(GetOr(function_data, ARGUMENTS, Str(<<"{", "}">>))))
             IN  IF name.t # "str" \/ args.outcome = "raised" THEN Raised
                 ELSE Returned(
                        Obj(<< <<ID, call_id>>,
                               <<TYPE, call_type>>,
                               <<FUNCTION,
                                 Obj(<< <<NAME, Str(Lower(name.v))>>,
                                        <<ARGUMENTS, Str(Dumps(args.items))>> >>)>> >>))

\* the whole loop: an exception in one turn leaves the function
fix_tool_calls(calls) ==
    The({ IF \E i \in 1..Len(calls) : fixed[i].outcome = "raised"
          THEN Raised
          ELSE Returned([i \in 1..Len(calls) |-> fixed[i].items])
          : fixed \in {[i \in 1..Len(calls) |-> fix_tool_call(calls[i])]} })

\* the caller's tool call after one turn of the loop: args_dict is
\* original_args itself when that is no string (line 42), so the del of
\* line 46 removes the key from the caller's object; an exception before
\* line 46 leaves the tool call as it was
LeftByTurn(tool_call) ==
    LET function_data == GetOr(tool_call, FUNCTION, Obj(<<>>))
    IN  IF fix_tool_call(tool_call).outcome = "raised" THEN tool_call
        ELSE IF Has(function_data, ARGUMENTS) /\ Get(function_data, ARGUMENTS).t = "obj"
        THEN Put(tool_call, FUNCTION,
                 Put(function_data, ARGUMENTS,
                     Del(Get(function_data, ARGUMENTS), DESCRIPTION)))
        ELSE tool_call

\* the caller's list after the loop: the turns up to the first one that
\* raises have run
LeftByLoop(calls) ==
    [i \in 1..Len(calls) |->
        IF \A j \in 1..(i - 1) : fix_tool_call(calls[j]).outcome # "raised"
        THEN LeftByTurn(calls[i])
        ELSE calls[i]]

(***************************************************************************)
(* test_fixed_request.validate_tool_calls on a list: the first failed      *)
(* check, "ok" when none fails.                                            *)
(***************************************************************************)

validate_tool_call(tool_call) ==
    IF ~Has(tool_call, ID) THEN "no id"
    ELSE IF ~Has(tool_call, TYPE) THEN "no type"
    ELSE IF ~Has(tool_call, FUNCTION) THEN "no function"
    ELSE LET function == Get(tool_call, FUNCTION)
         IN  IF ~In(NAME, function) THEN "no name"
             ELSE IF ~In(ARGUMENTS, function) THEN "no arguments"
             ELSE IF Get(function, NAME).v # Lower(Get(function, NAME).v)
             THEN "name not lowercase"
             ELSE LET r == Loads(Get(function, ARGUMENTS).v)
                  IN  IF ~r.ok THEN "arguments not JSON"
                      ELSE IF r.val.t # "obj" THEN "arguments not an object"
                      ELSE IF Has(r.val, DESCRIPTION) THEN "arguments hold description"
                      ELSE "ok"

validate_tool_calls(calls) ==
    The({ LET bad == {i \in 1..Len(calls) : said[i] # "ok"}
          IN  IF bad = {} THEN [ok |-> TRUE, detail |-> "ok", index |-> 0]
              ELSE [ok |-> FALSE, detail |-> said[Least(bad)], index |-> Least(bad)]
          : said \in {[i \in 1..Len(calls) |-> validate_tool_call(calls[i])]} })

(***************************************************************************)
(* Tool-call lists: at most MaxCalls calls.                                *)
(***************************************************************************)

MaxCalls == 2

ArgumentStrings ==
    { <<"{", "}">>,
      <<"{", "\"", "x", "\"", ":", "1", "}">>,
      <<"{", "\"", "x", "\"", ":", "1", ",", "\"", "d", "e", "s", "c", "r", "i", "p", "t", "i", "o", "n", "\"", ":", "\"", "d", "\"", "}">>,
      <<"{", "\"", "d", "e", "s", "c", "r", "i", "p", "t", "i", "o", "n", "\"", ":", " ", "\"", "d", "\"", ",", " ", "\"", "x", "\"", ":", " ", "[", "1", ",", " ", "\"", "d", "e", "s", "c", "r", "i", "p", "t", "i", "o", "n", "\"", "]", "}">>,
      <<"{", "\"", "x", "\"", ":", " ", "{", "\"", "d", "e", "s", "c", "r", "i", "p", "t", "i", "o", "n", "\"", ":", " ", "1", "}", "}">>,
      <<"{", "\"", "a", "\"", ":", "1", ",", "\"", "a", "\"", ":", "2", ",", "\"", "b", "\"", ":", "3", "}">>,
      <<" ", "{", "\"", "d", "e", "s", "c", "r", "i", "p", "t", "i", "o", "n", "\"", ":", "{", "\"", "x", "\"", ":", "-", "1", "0", "}", "}", " ">>,
      <<"[", "1", "]">>,
      <<"[", "\"", "d", "e", "s", "c", "r", "i", "p", "t", "i", "o", "n", "\"", "]">>,
      <<"\"", "d", "e", "s", "c", "r", "i", "p", "t", "i", "o", "n", "\"">>,
      <<"\"", "x", "\"">>,
      <<"5">>,
      <<"n", "u", "l", "l">>,
      <<"t", "r", "u", "e">>,
      <<"{", "x">>,
      <<"{", "\"", "x", "\"", ":", "1", ",", "}">>,
      <<>>,
      <<"{", "\"", "x", "\"", ":", "1", "}", "x">>,
      <<"0", "1">>,
      <<"[", "1", ",", "]">>,
      <<"{", "\"", "x", "\"", " ", "1", "}">> }

CallWith(name, arguments) ==
    Obj(<< <<ID, Str(<<"c", "1">>)>>, <<TYPE, Str(FUNCTION)>>,
           <<FUNCTION, Obj(<< <<NAME, Str(name)>>, <<ARGUMENTS, arguments>> >>)>> >>)

CallPool ==
    {CallWith(<<"G", "e", "t">>, Str(a)) : a \in ArgumentStrings}
    \cup { Obj(<<>>),
           Obj(<< <<ID, Str(<<"c", "2">>)>>,
                  <<FUNCTION, Obj(<< <<NAME, Str(<<"g", "e", "t">>)>> >>)>> >>),
           Obj(<< <<TYPE, Str(FUNCTION)>>,
                  <<FUNCTION, Obj(<< <<ARGUMENTS, Str(<<"{", "}">>)>> >>)>> >>),
           CallWith(<<"G", "E", "T">>,
                    Obj(<< <<DESCRIPTION, Str(<<"d">>)>>, <<<<"x">>, Num(1)>> >>)) }

RECURSIVE CallLists(_)
CallLists(n) ==
    IF n = 0 THEN {<<>>}
    ELSE LET L == CallLists(n - 1)
         IN  L \cup {Append(l, c) : l \in L, c \in CallPool}

(***************************************************************************)
(* fix_tool_calls on one list, then validate_tool_calls on its result.     *)
(***************************************************************************)

InitTools ==
    /\ pc = "calls"
    /\ tool_calls \in CallLists(MaxCalls)
    /\ tool_calls_after = tool_calls
    /\ fixed_tool_calls = <<>>
    /\ validation = <<>>
    /\ NoText
    /\ NoDocument
    /\ NoCleanup
    /\ NoTruncation

Normalize ==
    /\ pc = "calls"
    /\ LET r == fix_tool_calls(tool_calls)
       IN  /\ pc' = IF r.outcome = "raised" THEN "raised" ELSE "normalized"
           /\ fixed_tool_calls' = r.items
    /\ tool_calls_after' = LeftByLoop(tool_calls_after)
    /\ UNCHANGED <<tool_calls, validation, sanVars, docVars, cleanVars, truncVars>>

Validate ==
    /\ pc = "normalized"
    /\ validation' = validate_tool_calls(fixed_tool_calls)
    /\ pc' = "validated"
    /\ UNCHANGED <<tool_calls, tool_calls_after, fixed_tool_calls, sanVars, docVars, cleanVars, truncVars>>

NextTools == Normalize \/ Validate

SpecTools == InitTools /\ [][NextTools]_vars

(***************************************************************************)
(* fix_request_body.fix_request_body: a deep copy of the request body in   *)
(* which the tool_calls of every assistant message went through            *)
(* fix_tool_calls.                                                         *)
(***************************************************************************)

ASSISTANT  == <<"a", "s", "s", "i", "s", "t", "a", "n", "t">>
TOOL_CALLS == <<"t", "o", "o", "l", "_", "c", "a", "l", "l", "s">>
INDEX      == <<"i", "n", "d", "e", "x">>
MODEL      == <<"m", "o", "d", "e", "l">>

BodyRaised        == [outcome |-> "raised", body |-> Null]
BodyReturned(b)   == [outcome |-> "returned", body |-> b]

\* for x in v: the items the loop visits, Raised when the loop body cannot
\* run on them (a character of a str or a key of a dict has no get, a
\* number, a boolean and None cannot be iterated)
Iterated(v) ==
    IF v.t = "list" THEN Returned(v.items)
    ELSE IF v = Str(<<>>) \/ v = Obj(<<>>) THEN Returned(<<>>)
    ELSE Raised

\* the loop body on one message: the message after it, or Raised
FixMessage(message) ==
    IF message.t # "obj" THEN Raised
    ELSE IF GetOr(message, ROLE, Null) = Str(ASSISTANT) /\ Has(message, TOOL_CALLS)
    THEN The({ IF calls.outcome = "raised" THEN Raised
               ELSE The({ IF r.outcome = "raised" THEN Raised
                          ELSE Returned(Put(message, TOOL_CALLS, List(r.items)))
                          : r \in {fix_tool_calls(calls.items)} })
               : calls \in {Iterated(Get(message, TOOL_CALLS))} })
    ELSE Returned(message)

\* the loop over fixed_body["messages"]: the messages after the loop, or
\* Raised when the loop body raises on one of them
FixMessages(msgs) ==
    The({ IF \E n \in 1..Len(msgs) : fixed[n].outcome = "raised" THEN Raised
          ELSE Returned([n \in 1..Len(msgs) |-> fixed[n].items])
          : fixed \in {[n \in 1..Len(msgs) |-> FixMessage(msgs[n])]} })

\* json.loads(json.dumps(v)) of a value that was read from JSON: the same
\* tree built anew, node by node
RECURSIVE DeepCopy(_)
DeepCopy(v) ==
    CASE v.t = "obj"  -> Obj([n \in 1..Len(v.kv) |-> <<v.kv[n][1], DeepCopy(v.kv[n][2])>>])
      [] v.t = "list" -> List([n \in 1..Len(v.items) |-> DeepCopy(v.items[n])])
      [] v.t = "str"  -> Str(v.v)
      [] v.t = "num"  -> Num(v.n)
      [] v.t = "bool" -> Bool(v.b)
      [] v.t = "null" -> Null

\* (faulty variant) no copy is made: the function edits the document it
\* was given
WorkingAlias(body) == [doc |-> body, shared |-> TRUE]

\* fixed_body = json.loads(json.dumps(request_body)): the document the
\* function works on, and whether it shares objects with the argument (a
\* tree built by json.loads is made of new objects only)
WorkingCopy(body) == [doc |-> DeepCopy(body), shared |-> FALSE]

FR_fix_request_body(body) ==
    The({ IF ~Has(fixed_body_copy, MESSAGES) THEN BodyReturned(fixed_body_copy)
          ELSE The({ IF msgs.outcome = "raised" THEN BodyRaised
                     ELSE The({ IF r.outcome = "raised" THEN BodyRaised
                                ELSE IF Get(fixed_body_copy, MESSAGES).t = "list"
                                THEN BodyReturned(Put(fixed_body_copy, MESSAGES, List(r.items)))
                                ELSE BodyReturned(fixed_body_copy)
                                : r \in {FixMessages(msgs.items)} })
                     : msgs \in {Iterated(Get(fixed_body_copy, MESSAGES))} })
          : fixed_body_copy \in {WorkingCopy(body).doc} })

(***************************************************************************)
(* Request bodies: assistant messages whose tool_calls hold at most        *)
(* MaxBodyCalls calls, next to messages and bodies the loop passes by.     *)
(***************************************************************************)

MaxBodyCalls == 2

BodyCallPool ==
    { CallWith(<<"G", "e", "t">>, Str(<<"{", "\"", "x", "\"", ":", "1", ",", "\"", "d", "e", "s", "c", "r", "i", "p", "t", "i", "o", "n", "\"", ":", "\"", "d", "\"", "}">>)),
      CallWith(<<"g", "e", "t">>, Str(<<"{", "x">>)),
      CallWith(<<"g", "e", "t">>, Str(<<"5">>)),
      CallWith(<<"g", "e", "t">>, Obj(<< <<DESCRIPTION, Str(<<"d">>)>>, <<<<"x">>, Num(1)>> >>)),
      Obj(<< <<ID, Str(<<"c", "2">>)>>, <<TYPE, Str(FUNCTION)>>, <<INDEX, Num(0)>>,
             <<FUNCTION, Obj(<< <<NAME, Str(<<"G", "e", "t">>)>>,
                                <<ARGUMENTS, Str(<<"{", "}">>)>> >>)>> >>) }

RECURSIVE BodyCallLists(_)
BodyCallLists(n) ==
    IF n = 0 THEN {<<>>}
    ELSE LET L == BodyCallLists(n - 1)
         IN  L \cup {Append(l, c) : l \in L, c \in BodyCallPool}

AssistantWith(calls) ==
    Obj(<< <<ROLE, Str(ASSISTANT)>>, <<CONTENT, Null>>, <<TOOL_CALLS, List(calls)>> >>)

UserMessage == Obj(<< <<ROLE, Str(USER)>>, <<CONTENT, Str(<<"a">>)>> >>)
ToolMessage == Obj(<< <<ROLE, Str(TOOL)>>, <<TOOL_CALL_ID, Str(<<"c", "1">>)>>,
                      <<CONTENT, Str(<<"a">>)>> >>)

RequestBodies(n) ==
    LET L == BodyCallLists(n)
    IN  {Obj(<< <<MODEL, Str(<<"a">>)>>,
                <<MESSAGES, List(<<UserMessage, AssistantWith(l), ToolMessage>>)>> >>) : l \in L}
        \cup {Obj(<< <<MESSAGES, List(<<AssistantWith(l), AssistantWith(m)>>)>> >>) : l \in L, m \in L}
        \cup {Obj(<< <<MESSAGES, List(<< Obj(<< <<ROLE, Str(TOOL)>>,
                                                <<TOOL_CALLS, List(l)>> >>) >>)>> >>) : l \in L}
        \cup {Obj(<< <<REQUEST_BODY, Obj(<< <<MESSAGES, List(<<AssistantWith(l)>>)>> >>)>> >>) : l \in L}
        \cup {Obj(<< <<MESSAGES, List(<< Obj(<< <<ROLE, Str(ASSISTANT)>>,
                                                <<CONTENT, Str(<<"a">>)>> >>) >>)>> >>),
              Obj(<< <<MESSAGES, List(<<>>)>> >>),
              Obj(<< <<MODEL, Str(<<"a">>)>> >>)}

(***************************************************************************)
(* A run of fix_request_body.fix_request_body on one request body.         *)
(***************************************************************************)

InitBody ==
    /\ pc = "body"
    /\ script = "request_body"
    /\ request_body \in RequestBodies(MaxBodyCalls)
    /\ original_body = request_body
    /\ messages = <<>>
    /\ fixed_messages = <<>>
    /\ fixed_body = <<>>
    /\ NoText
    /\ NoToolCalls
    /\ NoCleanup
    /\ NoTruncation

\* the call; edits made to objects the working document shares with the
\* argument are edits of the argument
FixRequestBody ==
    /\ pc = "body"
    /\ LET r == FR_fix_request_body(request_body)
       IN  /\ pc' = IF r.outcome = "raised" THEN "raised" ELSE "body_fixed"
           /\ fixed_body' = r.body
           /\ request_body' = IF WorkingCopy(request_body).shared /\ r.outcome # "raised"
                              THEN r.body ELSE request_body
    /\ UNCHANGED <<script, original_body, messages, fixed_messages,
                   sanVars, toolVars, cleanVars, truncVars>>

\* what a caller may do to the document it got back
Changes(body) ==
    {Put(body, MODEL, Str(<<"b">>))}
        \cup (IF Has(body, MESSAGES) THEN {Del(body, MESSAGES)} ELSE {})

\* a later change of the returned document by the caller
ChangeReturned ==
    /\ pc = "body_fixed"
    /\ \E changed \in Changes(fixed_body) :
           /\ fixed_body' = changed
           /\ request_body' = IF WorkingCopy(original_body).shared THEN changed
                              ELSE request_body
    /\ pc' = "body_changed"
    /\ UNCHANGED <<script, original_body, messages, fixed_messages,
                   sanVars, toolVars, cleanVars, truncVars>>

NextBody == FixRequestBody \/ ChangeReturned

SpecBody == InitBody /\ [][NextBody]_vars

(***************************************************************************)
(* incremental_test.py: the five single rules and the test cases of main,  *)
(* each a rule or a composition of rules applied to the content of the    *)
(* last tool message.                                                      *)
(***************************************************************************)

remove_nested_markdown_images(c) == IF c = <<>> THEN c ELSE ReSub("nested_image", c)

remove_all_markdown_links(c) == IF c = <<>> THEN c ELSE ReSub("md_link", c)

remove_markdown_badges(c) == IF c = <<>> THEN c ELSE ReSub("badge", c)

\* (faulty variant) only the first occurrence is replaced
remove_url_encoded_chars_once(c) ==
    IF c = <<>> \/ ~Contains(c, PCT_2B) THEN c
    ELSE LET at == Least({i \in 1..Len(c) : StartsAt(c, i, PCT_2B)})
         IN  SubSeq(c, 1, at - 1) \o <<"+">> \o SubSeq(c, at + 3, Len(c))

remove_url_encoded_chars(c) == IF c = <<>> THEN c ELSE Replace(c, PCT_2B, <<"+">>)

VENV_BACKSLASHES == <<"v", "e", "n", "v", "\\", "\\", "S", "c", "r", "i", "p", "t", "s", "\\", "\\", "a", "c", "t", "i", "v", "a", "t", "e">>
VENV_SLASHES     == <<"v", "e", "n", "v", "/", "S", "c", "r", "i", "p", "t", "s", "/", "a", "c", "t", "i", "v", "a", "t", "e">>

remove_windows_paths(c) == IF c = <<>> THEN c ELSE Replace(c, VENV_BACKSLASHES, VENV_SLASHES)

\* the names of test_cases, in the order of the list
TestCaseNames ==
    << "nested", "links", "badges", "url_encoded", "windows_paths",
       "nested+links", "nested+badges", "nested+url_encoded",
       "nested+windows_paths", "all" >>

\* fix_func(content) of the test case
test_case(name, c) ==
    CASE name = "nested"        -> remove_nested_markdown_images(c)
      [] name = "links"         -> remove_all_markdown_links(c)
      [] name = "badges"        -> remove_markdown_badges(c)
      [] name = "url_encoded"   -> remove_url_encoded_chars(c)
      [] name = "windows_paths" -> remove_windows_paths(c)
      [] name = "nested+links"  -> remove_all_markdown_links(remove_nested_markdown_images(c))
      [] name = "nested+badges" -> remove_markdown_badges(remove_nested_markdown_images(c))
      [] name = "nested+url_encoded"   -> remove_url_encoded_chars(remove_nested_markdown_images(c))
      [] name = "nested+windows_paths" -> remove_windows_paths(remove_nested_markdown_images(c))
      [] name = "all" ->
            remove_windows_paths(remove_url_encoded_chars(remove_markdown_badges(
                remove_all_markdown_links(remove_nested_markdown_images(c)))))

(***************************************************************************)
(* test_comprehensive_markdown_cleanup.simulate_cleanup, step by step.     *)
(***************************************************************************)

CleanupSteps == 6

\* step k of simulate_cleanup applied to cleaned_content
cleanup_step(k, c) ==
    CASE k = 1 -> ReSub("cleanup_nested_image", c)
      [] k = 2 -> ReSub("incomplete_link", c)
      [] k = 3 -> Replace(c, BACKSLASH2, <<"/">>)
      [] k = 4 -> ReSub("url", c)
      [] k = 5 -> ReSub("empty_alt", c)
      [] k = 6 -> ReSub("blank_lines", ReSub("spaces", c))

simulate_cleanup(c) ==
    cleanup_step(6, cleanup_step(5, cleanup_step(4,
        cleanup_step(3, cleanup_step(2, cleanup_step(1, c))))))

(***************************************************************************)
(* Inputs of the rules: every text made of at most MaxRuleFrags of the     *)
(* constructs the rules are about, and every nested image whose alt text,  *)
(* badge URL and target URL are at most MaxPartLen characters long.        *)
(***************************************************************************)

MaxRuleFrags == 3
MaxPartLen == 1

RuleFragments ==
    { <<"[", "a", "]", "(", "b">>, <<")">>, <<"\n">>, <<"\\">>, BACKSLASH2,
      <<"[", "!", "[", "a", "]", "(", "b", ")", "]", "(", "c", ")">>,
      <<"!", "[", "a", "]", "(", "b", ")">>,
      <<"[", "a", "]", "(", "b", ".", "c", ")">>,
      PCT_2B, <<" ">> }

PartChars == {"a", "[", "!"}

RECURSIVE Parts(_)
Parts(n) ==
    IF n = 0 THEN {<<>>}
    ELSE Parts(n - 1) \cup {part \o <<c>> : part \in Parts(n - 1), c \in PartChars}

NestedImage(alt, badge, target) ==
    <<"[", "!", "[">> \o alt \o <<"]", "(">> \o badge \o <<")", "]", "(">>
        \o target \o <<")">>

\* link targets: a host or a path, after each prefix fix_url looks for
LinkTargets ==
    { prefix \o rest :
          prefix \in SCHEMES \cup RELATIVE \cup {<<>>},
          rest \in { <<"b", ".", "c">>, <<"b">>, <<"b", " ", "c", ".", "d">>,
                     <<"b", "\\", "c", ".", "d">> } }

ExampleLink(url) == <<"[", "a", "]", "(">> \o url \o <<")">>

\* one link, or two links one after the other
ExampleLinks ==
    { ExampleLink(url) : url \in LinkTargets }
        \cup { ExampleLink(first) \o ExampleLink(second) :
                   first \in LinkTargets, second \in LinkTargets }

\* the input texts for the bounds n and m
RuleTexts(n, m) ==
    TextsOf(RuleFragments, n)
        \cup { NestedImage(alt, badge, target) :
                   alt \in Parts(m) \ {<<>>}, badge \in Parts(m) \ {<<>>},
                   target \in Parts(m) \ {<<>>} }
        \cup ExampleLinks

(***************************************************************************)
(* One text handed to a test case of incremental_test, or taken through    *)
(* the steps of simulate_cleanup.                                          *)
(***************************************************************************)

StepPc(k) == <<"text", "step_1", "step_2", "step_3", "step_4", "step_5", "step_6">>[k + 1]

InitRules ==
    /\ pc = "text"
    /\ content \in RuleTexts(MaxRuleFrags, MaxPartLen)
    /\ fixed_content = <<>>
    /\ refixed_content = <<>>
    /\ analysis = {}
    /\ cleaned_content = content
    /\ step_input = <<>>
    /\ NoDocument
    /\ NoToolCalls
    /\ NoTruncation

\* create_test_case(content, name, fix_func)
TestCase ==
    /\ pc = "text"
    /\ \E n \in 1..Len(TestCaseNames) :
           /\ script' = TestCaseNames[n]
           /\ fixed_content' = test_case(TestCaseNames[n], content)
    /\ pc' = "tested"
    /\ UNCHANGED <<content, refixed_content, analysis, request_body, original_body,
                   messages, fixed_messages, fixed_body, toolVars, cleanVars, truncVars>>

\* the next step of simulate_cleanup
CleanupStep ==
    /\ \E k \in 1..CleanupSteps :
           /\ pc = StepPc(k - 1)
           /\ pc' = StepPc(k)
           /\ step_input' = cleaned_content
           /\ cleaned_content' = cleanup_step(k, cleaned_content)
    /\ UNCHANGED <<sanVars, docVars, toolVars, truncVars>>

\* analyze_last_tool_message: the analysis of the content as it was read
AnalyzeContent ==
    /\ pc = "text"
    /\ analysis' = analyze_content(content)
    /\ pc' = "content_analyzed"
    /\ UNCHANGED <<content, fixed_content, refixed_content, docVars, toolVars, cleanVars, truncVars>>

NextRules == TestCase \/ CleanupStep \/ AnalyzeContent

SpecRules == InitRules /\ [][NextRules]_vars

(***************************************************************************)
(* fix_problematic_message.py: truncate_tool_message and                   *)
(* clean_tool_message.                                                     *)
(***************************************************************************)

\* s[:k]: the first k characters, all but the last -k when k is negative
Prefix(s, k) ==
    IF k >= 0 THEN SubSeq(s, 1, IF k < Len(s) THEN k ELSE Len(s))
    ELSE SubSeq(s, 1, IF Len(s) + k > 0 THEN Len(s) + k ELSE 0)

NAME_COLON     == <<"n", "a", "m", "e", ":">>
ELLIPSIS       == <<".", ".", ".">>
TRUNCATED_MARK == <<"[", "<U+5185>", "<U+5BB9>", "<U+5DF2>", "<U+622A>", "<U+65AD>", "]">>

\* (faulty variant) the cut made at max_length, the room of the marker forgotten
truncate_tool_message_late(c, max) ==
    IF Len(c) <= max THEN c ELSE Prefix(c, max) \o ELLIPSIS

truncate_tool_message(c, max) ==
    IF Len(c) <= max THEN c
    ELSE IF StartsWith(c, NAME_COLON) /\ LineCount(c) >= 2
    THEN LET name_line        == LineFrom(c, 1, 1)
             description_line == LineFrom(c, 2, 1)
         IN  name_line \o <<"\n">>
               \o (IF Len(description_line) > max - Len(name_line) - 10
                   THEN Prefix(description_line, max - Len(name_line) - 13) \o ELLIPSIS
                   ELSE description_line)
               \o <<"\n">> \o TRUNCATED_MARK
    ELSE Prefix(c, max - 3) \o ELLIPSIS

\* the default of max_length, and the length clean_tool_message tests for
DEFAULT_MAX_LENGTH == 500

IMG_LICENSE == <<"!", "[", "L", "i", "c", "e", "n", "s", "e", "]">>

\* clean_tool_message(message): the message as the call leaves it, or Raised
\* (len of a content that is None)
clean_tool_message(m) ==
    IF GetOr(m, ROLE, Null) = Str(TOOL) /\ Has(m, CONTENT)
    THEN IF Get(m, CONTENT).t # "str" THEN Raised
         ELSE IF \/ Len(Get(m, CONTENT).v) > DEFAULT_MAX_LENGTH
                 \/ Contains(Get(m, CONTENT).v, IMG_PYTHON)
                 \/ Contains(Get(m, CONTENT).v, IMG_LICENSE)
         THEN Put(m, CONTENT, Str(truncate_tool_message(Get(m, CONTENT).v, DEFAULT_MAX_LENGTH)))
         ELSE m
    ELSE m

(***************************************************************************)
(* Inputs of the truncation: a head, a run of one letter and a tail, with  *)
(* the run at most MaxExtra long or within MaxExtra of the default         *)
(* ceiling; ceilings are the default and every length up to MaxCeiling.    *)
(***************************************************************************)

MaxExtra == 2
MaxCeiling == 12

TruncHeads ==
    { <<>>, <<"x">>, <<"x", "\n">>, NAME_COLON, NAME_COLON \o <<"k">>,
      NAME_COLON \o <<"k", "\n">>, NAME_COLON \o <<"k", "\n", "d", "\n">>,
      IMG_PYTHON }

TruncTails == { <<>>, <<"\n">>, <<"\n", "b">> }

Filler(n) == [i \in 1..n |-> "a"]

\* the input contents for the bound e
Contents(e) ==
    { head \o Filler(n) \o tail :
        head \in TruncHeads, tail \in TruncTails,
        n \in (0..e) \cup ((DEFAULT_MAX_LENGTH - 10 - e)..(DEFAULT_MAX_LENGTH + e)) }

\* the messages that carry a content, or none
MessagesWith(c) ==
    { Obj(<< <<ROLE, Str(TOOL)>>, <<CONTENT, Str(c)>> >>),
      Obj(<< <<ROLE, Str(USER)>>, <<CONTENT, Str(c)>> >>),
      Obj(<< <<ROLE, Str(TOOL)>>, <<CONTENT, Null>> >>),
      Obj(<< <<ROLE, Str(TOOL)>> >>) }

(***************************************************************************)
(* One content handed to truncate_tool_message with some ceiling, or one   *)
(* message handed to clean_tool_message.                                   *)
(***************************************************************************)

InitTruncate ==
    /\ pc = "content"
    /\ content \in Contents(MaxExtra)
    /\ cleaned_message \in MessagesWith(content)
    /\ max_length = 0
    /\ truncated = <<>>
    /\ fixed_content = <<>>
    /\ refixed_content = <<>>
    /\ analysis = {}
    /\ NoDocument
    /\ NoToolCalls
    /\ NoCleanup

Truncate ==
    /\ pc = "content"
    /\ \E max \in (0..MaxCeiling) \cup {DEFAULT_MAX_LENGTH} :
           /\ max_length' = max
           /\ truncated' = truncate_tool_message(content, max)
    /\ pc' = "truncated"
    /\ UNCHANGED <<cleaned_message, sanVars, docVars, toolVars, cleanVars>>

CleanToolMessage ==
    /\ pc = "content"
    /\ IF clean_tool_message(cleaned_message) = Raised
       THEN pc' = "raised" /\ UNCHANGED cleaned_message
       ELSE pc' = "cleaned" /\ cleaned_message' = clean_tool_message(cleaned_message)
    /\ UNCHANGED <<max_length, truncated, sanVars, docVars, toolVars, cleanVars>>

NextTruncate == Truncate \/ CleanToolMessage

SpecTruncate == InitTruncate /\ [][NextTruncate]_vars

(***************************************************************************)
(* Claims about the sanitizer (SpecSanitize).                              *)
(***************************************************************************)

\* C1: idempotence: sanitizing the sanitizer's own output changes nothing,
\* fix_markdown_content(fix_markdown_content(t)) = fix_markdown_content(t).
C1_Idempotent == pc = "refixed" => refixed_content = fixed_content

\* The hazard patterns of C2: a text is clean when it has no bracket, no
\* exclamation mark, no backslash, no %2B, no star, no backtick, no name:
\* followed by a tab, and no line that starts with a hash.
Clean(t) ==
    /\ \A i \in 1..Len(t) : t[i] \notin {"[", "]", "!", "\\", "*", Backtick}
    /\ ~Contains(t, PCT_2B)
    /\ ~Contains(t, NAME_TAB)
    /\ \A i \in 1..Len(t) : t[i] = "#" => (i > 1 /\ t[i - 1] # "\n")

\* C2: no-op on clean input: a text with none of the hazard patterns is
\* returned by fix_markdown_content unchanged, character for character.
C2_NoOpOnClean == (pc # "read" /\ Clean(content)) => fixed_content = content

\* C2 witness: a clean text that holds a hash inside a line and the start
\* of a percent escape has been sanitized.
C2_Witness ==
    /\ pc = "fixed"
    /\ Clean(content)
    /\ Contains(content, <<"a", "#">>)
    /\ Contains(content, <<"%", "2">>)

\* C6: hazard coverage: the analyzer run on the sanitizer's output fires
\* none of its fixable hazard checks (tab header, markdown image, doubled
\* backslash, %2B).
C6_HazardCoverage == pc \in {"analyzed", "refixed"} => analysis = {}

(***************************************************************************)
(* Claims about the patcher (SpecPatch).                                   *)
(***************************************************************************)

\* the message a claim calls selected: the last one whose role is tool
Selected(msgs) == LastToolIndex(msgs)

\* C3: order preservation: fix_last_tool_message returns a list of the same
\* length with the same roles in the same order; every message equals its
\* input counterpart except the selected one, and in the selected one every
\* field other than content is unchanged.
C3_OrderPreserved ==
    pc \in {"fixed", "saved"} =>
        LET in  == messages.items
            out == fixed_messages
        IN  /\ Len(out) = Len(in)
            /\ \A i \in 1..Len(in) :
                 /\ GetOr(out[i], ROLE, Null) = GetOr(in[i], ROLE, Null)
                 /\ i # Selected(in) => out[i] = in[i]
                 /\ i = Selected(in) => Del(out[i], CONTENT) = Del(in[i], CONTENT)

\* C3 witness: fix_last_tool_message has changed the content of the last of
\* two messages, a tool message that carries a tool_call_id.
C3_Witness ==
    /\ pc = "fixed"
    /\ Len(messages.items) = 2
    /\ Selected(messages.items) = 2
    /\ Has(messages.items[2], TOOL_CALL_ID)
    /\ fixed_messages[2] # messages.items[2]
    /\ fixed_messages[1] = messages.items[1]

\* C4: write-back reaches the located node: when the located list has a
\* tool message with a text content, the document the flow produces holds
\* the fixed message at the selected position of the list the locator
\* returned.
C4_WriteBackReachesNode ==
    (/\ pc = "saved"
     /\ Selected(messages.items) > 0
     /\ GetOr(messages.items[Selected(messages.items)], CONTENT, Null).t = "str") =>
        GetAt(request_body, messages.ref \o <<Idx(Selected(messages.items))>>)
            = fixed_messages[Selected(messages.items)]

\* d without the content of the selected message of the located list
WithoutSelectedContent(d) ==
    IF Selected(messages.items) = 0 THEN d
    ELSE LET p == messages.ref \o <<Idx(Selected(messages.items))>>
         IN  SetAt(d, p, Del(GetAt(d, p), CONTENT))

\* C5: document frame: the flow changes nothing in the document except the
\* content of the selected message of the list the locator returned.
C5_DocumentFrame ==
    pc = "saved" =>
        WithoutSelectedContent(request_body) = WithoutSelectedContent(original_body)

(***************************************************************************)
(* Claims about the tool-call normalizer (SpecTools)                       *)
(***************************************************************************)

Normalized == pc \in {"normalized", "validated"}

NoUpper(cs) == \A i \in 1..Len(cs) : \A k \in 1..26 : cs[i] # UPPER[k]

FunctionOf(tool_call) == GetOr(tool_call, FUNCTION, Obj(<<>>))

\* the arguments a tool call was given, parsed when they came as a string
GivenArguments(tool_call) ==
    LET a == Get(FunctionOf(tool_call), ARGUMENTS)
    IN  IF a.t = "str" THEN Loads(a.v) ELSE Parsed(a, 0)

HasObjectArguments(tool_call) ==
    /\ Has(FunctionOf(tool_call), ARGUMENTS)
    /\ GivenArguments(tool_call).ok
    /\ GivenArguments(tool_call).val.t = "obj"

HasUnparsableArguments(tool_call) ==
    /\ Has(FunctionOf(tool_call), ARGUMENTS)
    /\ Get(FunctionOf(tool_call), ARGUMENTS).t = "str"
    /\ ~Loads(Get(FunctionOf(tool_call), ARGUMENTS).v).ok

\* the arguments string of a fixed tool call, parsed
FixedArguments(n) == Loads(Get(Get(fixed_tool_calls[n], FUNCTION), ARGUMENTS).v)

\* C7: tool-call invariant: after fix_tool_calls every function.name is
\* lowercase and every function.arguments parses as JSON with no
\* description key.
C7_ToolCallInvariant ==
    Normalized =>
        \A n \in 1..Len(fixed_tool_calls) :
            /\ NoUpper(Get(Get(fixed_tool_calls[n], FUNCTION), NAME).v)
            /\ FixedArguments(n).ok
            /\ FixedArguments(n).val.t = "obj" => ~Has(FixedArguments(n).val, DESCRIPTION)

\* C7 witness: a list of two calls was fixed, one of which came with an
\* uppercase letter in its name and a description key in its arguments.
C7_Witness ==
    /\ pc = "normalized"
    /\ Len(tool_calls) = 2
    /\ \E n \in 1..2 :
        /\ Has(FunctionOf(tool_calls[n]), NAME)
        /\ ~NoUpper(Get(FunctionOf(tool_calls[n]), NAME).v)
        /\ HasObjectArguments(tool_calls[n])
        /\ Has(GivenArguments(tool_calls[n]).val, DESCRIPTION)

\* C8: normalize then validate: validate_tool_calls reports the result of
\* fix_tool_calls as correct.
C8_NormalizeThenValidate == pc = "validated" => validation.ok

\* C9: only description is removed: when a call's arguments are a JSON
\* object, the fixed arguments parse to that object without its top-level
\* description key, the other keys with their values in the same order.
C9_OnlyDescriptionRemoved ==
    Normalized =>
        \A n \in 1..Len(tool_calls) :
            HasObjectArguments(tool_calls[n]) =>
                /\ FixedArguments(n).ok
                /\ FixedArguments(n).val.t = "obj"
                /\ FixedArguments(n).val.kv
                     = SelectSeq(GivenArguments(tool_calls[n]).val.kv,
                                 LAMBDA e : e[1] # DESCRIPTION)

\* C9 witness: a fixed call came with a description key next to a key whose
\* value is a list or an object.
C9_Witness ==
    /\ pc = "normalized"
    /\ \E n \in 1..Len(tool_calls) :
        /\ HasObjectArguments(tool_calls[n])
        /\ Has(GivenArguments(tool_calls[n]).val, DESCRIPTION)
        /\ \E m \in 1..Len(GivenArguments(tool_calls[n]).val.kv) :
              GivenArguments(tool_calls[n]).val.kv[m][2].t \in {"list", "obj"}
        /\ Len(FixedArguments(n).val.kv) = Len(GivenArguments(tool_calls[n]).val.kv) - 1

\* C10: local recovery: when a call's arguments string is not valid JSON,
\* fix_tool_calls does not fail, returns as many calls as it was given,
\* that call with empty-object arguments and every call fixed as it is on
\* its own.
C10_LocalRecovery ==
    (pc # "calls" /\ \E n \in 1..Len(tool_calls) : HasUnparsableArguments(tool_calls[n])) =>
        /\ Normalized
        /\ Len(fixed_tool_calls) = Len(tool_calls)
        /\ \A n \in 1..Len(tool_calls) :
            /\ fixed_tool_calls[n] = fix_tool_calls(<<tool_calls[n]>>).items[1]
            /\ HasUnparsableArguments(tool_calls[n]) => FixedArguments(n).val = Obj(<<>>)

(***************************************************************************)
(* Claims about fix_request_body.fix_request_body (SpecBody)               *)
(***************************************************************************)

IsAssistantWithCalls(message) ==
    GetOr(message, ROLE, Null) = Str(ASSISTANT) /\ Has(message, TOOL_CALLS)

\* a tool call without the two fields the normalizer rewrites
WithoutNameAndArguments(tool_call) ==
    IF Has(tool_call, FUNCTION)
    THEN Put(tool_call, FUNCTION, Del(Del(Get(tool_call, FUNCTION), NAME), ARGUMENTS))
    ELSE tool_call

\* C11: normalizer frame: fix_request_body keeps the messages and their
\* order, leaves every message that is no assistant message with tool_calls
\* as it is, keeps the number and order of the tool calls, and changes
\* nothing of a tool call but function.name and function.arguments.
C11_NormalizerFrame ==
    pc = "body_fixed" =>
        /\ Del(fixed_body, MESSAGES) = Del(request_body, MESSAGES)
        /\ Has(fixed_body, MESSAGES) = Has(request_body, MESSAGES)
        /\ Has(request_body, MESSAGES) =>
            LET in  == Get(request_body, MESSAGES).items
                out == Get(fixed_body, MESSAGES).items
            IN  /\ Len(out) = Len(in)
                /\ \A n \in 1..Len(in) :
                    IF IsAssistantWithCalls(in[n])
                    THEN /\ Del(out[n], TOOL_CALLS) = Del(in[n], TOOL_CALLS)
                         /\ LET given == Get(in[n], TOOL_CALLS).items
                                fixed == Get(out[n], TOOL_CALLS).items
                            IN  /\ Len(fixed) = Len(given)
                                /\ \A m \in 1..Len(given) :
                                     WithoutNameAndArguments(fixed[m])
                                        = WithoutNameAndArguments(given[m])
                    ELSE out[n] = in[n]

(***************************************************************************)
(* Claims about the locator (SpecPatch)                                    *)
(***************************************************************************)

Searched == pc \in {"located", "not_found"}

\* the paths of the list-valued messages entries of v that are reachable
\* through object values and objects inside list values, in depth-first,
\* left-to-right pre-order: a node's own entry before those of its children
RECURSIVE Candidates(_), CandidatesIn(_, _), CandidatesAmong(_, _, _)
Candidates(v) ==
    IF v.t # "obj" THEN <<>>
    ELSE (IF \E n \in 1..Len(v.kv) : v.kv[n][1] = MESSAGES /\ v.kv[n][2].t = "list"
          THEN << <<Key(MESSAGES)>> >> ELSE <<>>)
         \o CandidatesIn(v, 1)

\* those under the entries of object v, from entry n on
CandidatesIn(v, n) ==
    IF n > Len(v.kv) THEN <<>>
    ELSE LET under == IF v.kv[n][2].t = "obj" THEN Candidates(v.kv[n][2])
                      ELSE IF v.kv[n][2].t = "list" THEN CandidatesAmong(v.kv[n][2].items, 1, <<>>)
                      ELSE <<>>
         IN  [c \in 1..Len(under) |-> <<Key(v.kv[n][1])>> \o under[c]] \o CandidatesIn(v, n + 1)

\* those under the objects among the items of a list, from item n on
CandidatesAmong(items, n, acc) ==
    IF n > Len(items) THEN acc
    ELSE LET under == Candidates(items[n])
         IN  CandidatesAmong(items, n + 1,
                             acc \o [c \in 1..Len(under) |-> <<Idx(n)>> \o under[c]])

\* C12: the locator finds messages at any depth: when some reachable object
\* of the document has a messages key holding a non-empty list, the result
\* is a non-empty list that is the value of a messages key of the document.
C12_FindsAtAnyDepth ==
    (/\ Searched
     /\ \E c \in 1..Len(Candidates(original_body)) :
            GetAt(original_body, Candidates(original_body)[c]).items # <<>>) =>
        /\ messages.items # <<>>
        /\ ~messages.fresh
        /\ messages.ref[Len(messages.ref)] = Key(MESSAGES)
        /\ GetAt(original_body, messages.ref) = List(messages.items)

\* C13: first match wins: the result is the first list-valued messages
\* entry in pre-order, empty or not, and the empty result when there is
\* none.
C13_FirstMatchWins ==
    Searched =>
        IF Candidates(original_body) = <<>>
        THEN messages.items = <<>>
        ELSE List(messages.items) = GetAt(original_body, Candidates(original_body)[1])

\* no object at any depth of v has a messages key
RECURSIVE NoMessagesKey(_)
NoMessagesKey(v) ==
    CASE v.t = "obj"  -> \A n \in 1..Len(v.kv) : v.kv[n][1] # MESSAGES /\ NoMessagesKey(v.kv[n][2])
      [] v.t = "list" -> \A n \in 1..Len(v.items) : NoMessagesKey(v.items[n])
      [] OTHER        -> TRUE

\* C14: not found is a no-op: on a document with no messages key anywhere
\* the locator returns the empty result and the run leaves the document as
\* it was.
C14_NotFoundNoOp ==
    (pc # "loaded" /\ NoMessagesKey(original_body)) =>
        /\ pc = "not_found"
        /\ messages = NotFound
        /\ request_body = original_body

\* C14 witness: fix_last_message ended on a document that holds a list of
\* two messages under a key other than messages.
C14_Witness ==
    /\ pc = "not_found"
    /\ script = "last_message"
    /\ NoMessagesKey(original_body)
    /\ Has(original_body, K("data"))
    /\ Get(original_body, K("data")).t = "list"
    /\ Len(Get(original_body, K("data")).items) = 2
    /\ request_body = original_body

IsTool(message) == Has(message, ROLE) /\ Get(message, ROLE) = Str(TOOL)

\* C15: selection of the last tool message: a message of the returned list
\* differs from the one given only if it has role tool and no later message
\* has; with no tool message the returned list is the list given.
C15_LastToolSelected ==
    pc = "fixed" =>
        /\ Len(fixed_messages) = Len(messages.items)
        /\ \A n \in 1..Len(messages.items) :
               fixed_messages[n] # messages.items[n] =>
                   /\ IsTool(messages.items[n])
                   /\ \A later \in (n + 1)..Len(messages.items) : ~IsTool(messages.items[later])
                   /\ Del(fixed_messages[n], CONTENT) = Del(messages.items[n], CONTENT)
        /\ (\A n \in 1..Len(messages.items) : ~IsTool(messages.items[n])) =>
               fixed_messages = messages.items

\* C15 witness: of two equal tool messages the second was changed and the
\* first was left as given.
C15_Witness ==
    /\ pc = "fixed"
    /\ Len(messages.items) = 2
    /\ IsTool(messages.items[1])
    /\ messages.items[2] = messages.items[1]
    /\ fixed_messages[1] = messages.items[1]
    /\ fixed_messages[2] # messages.items[2]

(***************************************************************************)
(* Claims about the single rules (SpecRules)                               *)
(***************************************************************************)

\* the k-th smallest element of a set of numbers
Nth(S, k) == CHOOSE i \in S : Cardinality({j \in S : j <= i}) = k

\* the characters of s at the positions kept, in order, with the character
\* at each position of marked replaced by c
Rewritten(s, kept, marked, c) ==
    [k \in 1..Cardinality(kept) |->
        IF Nth(kept, k) \in marked THEN c ELSE s[Nth(kept, k)]]

\* position i of s is inside a run of two or more backslashes
InLongRun(s, i) ==
    /\ s[i] = "\\"
    /\ \/ i > 1 /\ s[i - 1] = "\\"
       \/ i < Len(s) /\ s[i + 1] = "\\"

\* the first positions of the maximal runs of two or more backslashes
LongRunStarts(s) ==
    {i \in 1..Len(s) : InLongRun(s, i) /\ (i = 1 \/ s[i - 1] # "\\")}

\* C16: path-separator rule: each maximal run of two or more backslashes
\* becomes exactly one forward slash, every other character stays, and the
\* output has no two adjacent backslashes.
C16_PathSeparators ==
    pc = "step_3" =>
        /\ cleaned_content =
               Rewritten(step_input,
                         {i \in 1..Len(step_input) : ~InLongRun(step_input, i)}
                             \cup LongRunStarts(step_input),
                         LongRunStarts(step_input), "/")
        /\ ~Contains(cleaned_content, BACKSLASH2)

\* the positions where %2B occurs in s (occurrences cannot overlap)
Occurrences(s) == {i \in 1..Len(s) : StartsAt(s, i, PCT_2B)}

\* C17: percent-decoding rule: remove_url_encoded_chars puts + in the place
\* of every %2B, keeps every other character in order, and leaves no %2B.
C17_PercentDecoding ==
    (pc = "tested" /\ script = "url_encoded") =>
        /\ fixed_content =
               Rewritten(content,
                         {i \in 1..Len(content) :
                              \A o \in Occurrences(content) : i \notin (o + 1)..(o + 2)},
                         Occurrences(content), "+")
        /\ ~Contains(fixed_content, PCT_2B)

\* C17 witness: a text with two occurrences of %2B was decoded.
C17_Witness ==
    /\ pc = "tested"
    /\ script = "url_encoded"
    /\ Cardinality(Occurrences(content)) = 2
    /\ Len(fixed_content) = Len(content) - 4
    /\ Contains(fixed_content, <<"+">>)

Positions(s, c) == {i \in 1..Len(s) : s[i] = c}

\* s is a nested image and nothing else: its only closing brackets and
\* parentheses are those of the construct, and alt, badge and target are
\* not empty
IsNestedImage(s) ==
    /\ StartsWith(s, <<"[", "!", "[">>)
    /\ \E a, p \in 5..Len(s) :
           /\ Positions(s, "]") = {a, p + 1}
           /\ Positions(s, ")") = {p, Len(s)}
           /\ a + 2 < p
           /\ p + 3 < Len(s)
           /\ s[a + 1] = "("
           /\ s[p + 2] = "("

AltOf(s) == SubSeq(s, 4, Least(Positions(s, "]")) - 1)

BadgeOf(s) == SubSeq(s, Least(Positions(s, "]")) + 2, Least(Positions(s, ")")) - 1)

TargetOf(s) == SubSeq(s, Least(Positions(s, ")")) + 3, Len(s) - 1)

AsLink(label, target) == <<"[">> \o label \o <<"]", "(">> \o target \o <<")">>

\* C18: nested image unwrapping: the nested-image rule turns
\* [![alt](badge)](target) into [alt](target), in incremental_test and in
\* simulate_cleanup, and link stripping after it leaves alt.
C18_NestedImageUnwrapped ==
    /\ (pc = "tested" /\ script = "nested" /\ IsNestedImage(content)) =>
           fixed_content = AsLink(AltOf(content), TargetOf(content))
    /\ (pc = "tested" /\ script = "nested+links" /\ IsNestedImage(content)) =>
           fixed_content = AltOf(content)
    /\ (pc = "step_1" /\ IsNestedImage(step_input)) =>
           cleaned_content = AsLink(AltOf(step_input), TargetOf(step_input))

\* C18 witness: a nested image whose alt text is an opening bracket was
\* unwrapped and then stripped to its alt text.
C18_Witness ==
    /\ pc = "tested"
    /\ script = "nested+links"
    /\ IsNestedImage(content)
    /\ AltOf(content) = <<"[">>
    /\ BadgeOf(content) # TargetOf(content)
    /\ fixed_content = <<"[">>

\* s is a bare image and nothing else
IsBareImage(s) ==
    /\ StartsWith(s, <<"!", "[">>)
    /\ \E a \in 4..Len(s) :
           /\ Positions(s, "]") = {a}
           /\ Positions(s, ")") = {Len(s)}
           /\ a + 2 < Len(s)
           /\ s[a + 1] = "("

ImageAltOf(s) == SubSeq(s, 3, Least(Positions(s, "]")) - 1)

\* C19: rule ordering: every pipeline that strips images and links turns a
\* bare image into its alt text, with no exclamation mark left over.
C19_ImagesBeforeLinks ==
    IsBareImage(content) =>
        /\ fix_markdown_content(content) = ImageAltOf(content)
        /\ (pc = "tested" /\ script = "all") => fixed_content = ImageAltOf(content)

\* index of the last character of the line of s that position i is on
LineEnd(s, i) == IF IndexFrom(s, "\n", i) = 0 THEN Len(s) ELSE IndexFrom(s, "\n", i) - 1

\* the ends of the lines of s on which some [label]( is opened and not
\* closed by a closing parenthesis before the line ends
UnclosedLineEnds(s) ==
    { LineEnd(s, i) : i \in
        { i \in 1..Len(s) :
            LET b == Bracketed(s, i, "[", "]")
            IN  /\ b > 0 /\ b < Len(s) /\ s[b + 1] = "("
                /\ LineEnd(s, i) = LineEnd(s, b + 1)
                /\ \A j \in (b + 2)..LineEnd(s, i) : s[j] # ")" } }

\* out is s with a closing parenthesis put after each position of ends
ClosedAt(s, ends, out) ==
    /\ Len(out) = Len(s) + Cardinality(ends)
    /\ \A i \in 1..Len(s) : out[i + Cardinality({e \in ends : e < i})] = s[i]
    /\ \A e \in ends : out[e + Cardinality({f \in ends : f <= e})] = ")"

\* C20: incomplete-link rule: the step puts the missing closing parenthesis
\* at the end of every line that leaves a link open, and changes nothing
\* else.
C20_IncompleteLinksClosed ==
    pc = "step_2" => ClosedAt(step_input, UnclosedLineEnds(step_input), cleaned_content)

Horizontal == {" ", "\t"}

\* the first positions of the runs of horizontal whitespace of s
HorizontalStarts(s) ==
    {i \in 1..Len(s) : s[i] \in Horizontal /\ (i = 1 \/ s[i - 1] \notin Horizontal)}

\* the newlines of s that come after two or more newlines in a row
SurplusNewlines(s) ==
    {i \in 3..Len(s) : s[i] = "\n" /\ s[i - 1] = "\n" /\ s[i - 2] = "\n"}

\* C21: whitespace rule: the whitespace step turns each run of spaces and
\* tabs into one space and each run of three or more newlines into two
\* newlines; every other character, single and double newlines among them,
\* stays.
C21_WhitespaceCollapsed ==
    pc = "step_6" =>
        cleaned_content =
            Rewritten(step_input,
                      ({i \in 1..Len(step_input) : step_input[i] \notin Horizontal}
                           \ SurplusNewlines(step_input))
                          \cup HorizontalStarts(step_input),
                      HorizontalStarts(step_input), " ")

(***************************************************************************)
(* Claims about the truncation (SpecTruncate)                              *)
(***************************************************************************)

EndsWith(s, tail) == Len(s) >= Len(tail) /\ SubSeq(s, Len(s) - Len(tail) + 1, Len(s)) = tail

\* out is a prefix of the input followed by the ellipsis marker, and fits
\* the ceiling
PlainlyTruncated(in, out, ceiling) ==
    /\ Len(out) <= ceiling
    /\ EndsWith(out, <<".", ".", ".">>)
    /\ Len(out) - 3 <= Len(in)
    /\ SubSeq(out, 1, Len(out) - 3) = SubSeq(in, 1, Len(out) - 3)

\* C22: plain truncation: with ceiling 500, a content longer than 500 that
\* has no name: header comes back at most 500 long, as a prefix of itself
\* followed by the ellipsis marker; a content of at most 500 characters
\* comes back unchanged.  The same holds for the content clean_tool_message
\* leaves in a tool message.
C22_PlainTruncation ==
    /\ (pc = "truncated" /\ max_length = 500) =>
           IF Len(content) <= 500 THEN truncated = content
           ELSE ~StartsWith(content, <<"n", "a", "m", "e", ":">>) =>
                    PlainlyTruncated(content, truncated, 500)
    /\ (pc = "cleaned" /\ Get(cleaned_message, ROLE) = Str(TOOL) /\ Has(cleaned_message, CONTENT)) =>
           IF Len(content) <= 500 THEN Get(cleaned_message, CONTENT) = Str(content)
           ELSE ~StartsWith(content, <<"n", "a", "m", "e", ":">>) =>
                    PlainlyTruncated(content, Get(cleaned_message, CONTENT).v, 500)

\* C22 witness: a content of 501 characters in two lines, with no header,
\* was cut to 500.
C22_Witness ==
    /\ pc = "truncated"
    /\ max_length = 500
    /\ Len(content) = 501
    /\ content[2] = "\n"
    /\ Len(truncated) = 500
    /\ truncated # content

\* the part of s before its first newline, and the part between its first
\* and its second newline (or its end)
FirstLine(s) == SubSeq(s, 1, Least(Positions(s, "\n")) - 1)

SecondLine(s) ==
    LET first == Least(Positions(s, "\n"))
        rest  == {i \in Positions(s, "\n") : i > first}
    IN  SubSeq(s, first + 1, IF rest = {} THEN Len(s) ELSE Least(rest) - 1)

\* C23: header-preserving truncation: a content over the ceiling that
\* begins with name: and has two lines or more comes back as its first two
\* lines, unchanged, and the truncation-marker line.
C23_HeaderPreserved ==
    (/\ pc = "truncated"
     /\ Len(content) > max_length
     /\ StartsWith(content, <<"n", "a", "m", "e", ":">>)
     /\ Positions(content, "\n") # {}) =>
        truncated = FirstLine(content) \o <<"\n">> \o SecondLine(content)
                        \o <<"\n">> \o TRUNCATED_MARK

\* C29: the length ceiling holds on every branch: what
\* truncate_tool_message returns is at most max_length long, and the content
\* clean_tool_message leaves in a tool message is at most 500 long.
C29_CeilingHolds ==
    /\ pc = "truncated" => Len(truncated) <= max_length
    /\ (pc = "cleaned" /\ Get(cleaned_message, ROLE) = Str(TOOL) /\ Has(cleaned_message, CONTENT)) =>
           (Len(content) > 500 => Len(Get(cleaned_message, CONTENT).v) <= 500)

(***************************************************************************)
(* Claims about failures and copies (SpecPatch, SpecTools, SpecBody)       *)
(***************************************************************************)

\* the selected tool message carries a text
HasText(m) == Has(m, CONTENT) /\ Get(m, CONTENT).t = "str"

\* C24: sanitizing never fails: fix_markdown_content returns the empty
\* string as it is, fix_last_tool_message of fix_markdown_issues never
\* raises, and a selected tool message with no content or a null content is
\* returned as it was.
C24_SanitizingNeverFails ==
    /\ fix_markdown_content(<<>>) = <<>>
    /\ script = "markdown" =>
        /\ ~(pc = "raised" /\ fixed_messages = <<>>)
        /\ \A n \in 1..Len(fixed_messages) :
               (/\ pc = "fixed"
                /\ IsTool(messages.items[n])
                /\ \A later \in (n + 1)..Len(messages.items) : ~IsTool(messages.items[later])
                /\ ~HasText(messages.items[n])) =>
                   fixed_messages[n] = messages.items[n]

HasNestedImage(s) == \E i \in 1..Len(s) : CleanupNestedImageEnd(s, i) > 0

\* the content holds the opening of an image, ![
HasImageSyntax(s) == Contains(s, <<"!", "[">>)

\* C26: nested-image hazard flag: the analysis of a content that holds an
\* image inside a link, whatever its alt text, records the markdown-image
\* issue, and the analysis of a content without image syntax does not.
C26_NestedImageFlagged ==
    pc = "content_analyzed" =>
        /\ HasNestedImage(content) => "markdown_image" \in analysis
        /\ ~HasImageSyntax(content) => "markdown_image" \notin analysis

(***************************************************************************)
(* Claims about the completion of link targets (SpecRules)                 *)
(***************************************************************************)

\* the links of s from position i on, as a scan from left to right finds
\* them: the position of the opening bracket of each
RECURSIVE LinksFrom(_, _)
LinksFrom(s, i) ==
    IF i > Len(s) THEN {}
    ELSE IF LinkEnd(s, i) > 0 THEN {i} \cup LinksFrom(s, LinkEnd(s, i) + 1)
    ELSE LinksFrom(s, i + 1)

\* the position of the opening parenthesis of the link at i, and its target
TargetStart(s, i) == Bracketed(s, i, "[", "]") + 1
TargetOfLink(s, i) == SubSeq(s, TargetStart(s, i) + 1, LinkEnd(s, i) - 1)

\* the target has no scheme and is not relative, has a dot, no space and no
\* backslash
NeedsScheme(url) ==
    /\ \A prefix \in { <<"h", "t", "t", "p", ":", "/", "/">>,
                        <<"h", "t", "t", "p", "s", ":", "/", "/">>,
                        <<"m", "a", "i", "l", "t", "o", ":">>,
                        <<"t", "e", "l", ":">>, <<"#">>, <<"/">>,
                        <<".", "/">>, <<".", ".", "/">> } :
           Len(url) < Len(prefix) \/ SubSeq(url, 1, Len(prefix)) # prefix
    /\ \E k \in 1..Len(url) : url[k] = "."
    /\ \A k \in 1..Len(url) : url[k] \notin {" ", "\\"}

\* s from position i on, with ins put in after every position of at
RECURSIVE InsertedAfter(_, _, _, _)
InsertedAfter(s, at, ins, i) ==
    IF i > Len(s) THEN <<>>
    ELSE <<s[i]>> \o (IF i \in at THEN ins ELSE <<>>) \o InsertedAfter(s, at, ins, i + 1)

\* C27: scheme completion of link targets: the URL step puts https:// in
\* front of the target of a link exactly when the target starts with none
\* of http://, https://, mailto:, tel:, #, /, ./ and ../, holds a dot, and
\* holds no space and no backslash; every other link, and the text around
\* the links, stays as it was.
C27_SchemeCompleted ==
    pc = "step_4" =>
        cleaned_content =
            InsertedAfter(step_input,
                          { TargetStart(step_input, i) :
                                i \in { j \in LinksFrom(step_input, 1) :
                                            NeedsScheme(TargetOfLink(step_input, j)) } },
                          <<"h", "t", "t", "p", "s", ":", "/", "/">>, 1)

\* C27 witness: of two links with a dot in the target, the step has
\* completed one and left the other, which has a scheme, a relative path, a
\* space or a backslash.
C27_Witness ==
    /\ pc = "step_4"
    /\ \E i, j \in LinksFrom(step_input, 1) :
           /\ NeedsScheme(TargetOfLink(step_input, i))
           /\ ~NeedsScheme(TargetOfLink(step_input, j))
           /\ \E k \in 1..Len(TargetOfLink(step_input, j)) : TargetOfLink(step_input, j)[k] = "."
    /\ cleaned_content # step_input
    /\ Len(cleaned_content) = Len(step_input) + 8

(***************************************************************************)
(* Claims about arguments that are no object, and about the list handed    *)
(* to fix_tool_calls (SpecTools)                                           *)
(***************************************************************************)

\* the arguments are a string that holds a JSON value other than an object
HasNonObjectArguments(tool_call) ==
    /\ Has(FunctionOf(tool_call), ARGUMENTS)
    /\ Get(FunctionOf(tool_call), ARGUMENTS).t = "str"
    /\ Loads(Get(FunctionOf(tool_call), ARGUMENTS).v).ok
    /\ Loads(Get(FunctionOf(tool_call), ARGUMENTS).v).val.t # "obj"

\* C28: arguments that are valid JSON but no object: when the arguments
\* string of a call holds a JSON array, string, number, boolean or null,
\* fix_tool_calls does not fail, gives that call empty-object arguments and
\* fixes every other call of the list as it does on its own.
C28_NonObjectArguments ==
    (pc # "calls" /\ \E n \in 1..Len(tool_calls) : HasNonObjectArguments(tool_calls[n])) =>
        /\ Normalized
        /\ Len(fixed_tool_calls) = Len(tool_calls)
        /\ \A n \in 1..Len(tool_calls) :
            IF HasNonObjectArguments(tool_calls[n])
            THEN FixedArguments(n).val = Obj(<<>>)
            ELSE fixed_tool_calls[n] = fix_tool_calls(<<tool_calls[n]>>).items[1]

\* C30: fix_tool_calls does not modify its input: after the call the list
\* handed in and every object in it are as they were at the call; arguments
\* given as an object with a description key still have the key.
C30_InputUnmodified ==
    pc \in {"normalized", "validated", "raised"} => tool_calls_after = tool_calls

=============================================================================
